---- MODULE Spec2Model ----
(***************************************************************************)
(* A model of the persistence and language-resolution layer of the         *)
(* translator (db.js, languageService.js) and of the page code that calls  *)
(* it (settings.js, main.js, api.js).                                      *)
(*                                                                         *)
(* Scheduling.  The code is single-threaded JavaScript.  A handler runs    *)
(* until it awaits an IndexedDB request; the request's effect on the store *)
(* and the code that follows the await up to the next request are one      *)
(* step, because the continuation runs in the microtask checkpoint of the  *)
(* request's success event.  Steps of different handlers interleave.       *)
(***************************************************************************)
EXTENDS Integers, Sequences, FiniteSets, TLC

VARIABLES
  settings,     \* the "settings" object store: key -> value (db.js:11)
  keys,         \* settings.js:62, the settings page's in-memory key list
  rendered,     \* number of key rows the settings page currently shows
  pageOps,      \* settings-page handlers that are suspended at an await
  call,         \* per page: the getNextApiKey call in progress
  ret,          \* per page: what the last finished getNextApiKey returned
  hist,         \* history of the rotation (set by the actions, read by none)
  idb,          \* the IndexedDB database "TranslatorDB": version, object stores
  db,           \* db.js:16, 0 while unset, else the number of the connection
  opens,        \* indexedDB.open requests not yet answered, oldest first
  opPc,         \* per store operation: where its `await openDB()` stands
  dhist,        \* history of the connection (set by the actions, read by none)
  languages,    \* the "languages" object store: code -> descriptor
  mergedLanguages, \* languageService.js:903, the cached catalog
  langNamesMap, \* languageService.js:908, the cached code -> name map
  langTx,       \* transactions on "languages" not yet run, oldest first
  lp,           \* per registry call: operation, argument, position
  lret,         \* per reader: what its last finished call returned
  lhist,        \* history of the registry (set by the actions, read by none)
  state,        \* main.js:491, the page's state object
  run,          \* handleTranslation: its position and its locals
  history,      \* the "history" object store: id -> record
  now,          \* what Date.now() returns
  thist,        \* history of the current handleTranslation run
  sourceTextarea,   \* main.js:461, the value of the source text box
  targetTextarea,   \* main.js:462, the value of the target text box
  langModal,    \* main.js:476-478, the modal: hidden or not, codes on its buttons
  uiOps,        \* main-page handlers that are suspended at an await
  hret,         \* what getHistory returned, while it is the last operation
  hhist,        \* history of the history store (set by the actions, read by none)
  sret,         \* what getSetting returned, while it is the last operation
  shist         \* history of the settings store (set by the actions, read by none)

rotVars == <<settings, keys, rendered, pageOps, call, ret, hist>>

dbVars == <<idb, db, opens, opPc, dhist>>

langVars ==
  <<languages, mergedLanguages, langNamesMap, langTx, lp, lret, lhist>>

domVars == <<sourceTextarea, targetTextarea, langModal, uiOps>>

transVars == <<state, run, history, now, thist, domVars>>

histVars == <<hret, hhist>>

setVars == <<sret, shist>>

vars == <<rotVars, dbVars, langVars, transVars, histVars, setVars>>

NotRot == <<dbVars, langVars, transVars, histVars, setVars>>
NotDB == <<rotVars, langVars, transVars, histVars, setVars>>
NotLang == <<rotVars, dbVars, transVars, histVars, setVars>>

----------------------------------------------------------------------------
(* Strings are sequences of one-character strings, so that trim() is        *)
(* computed and not assumed.                                                *)

RECURSIVE TrimStart(_)
TrimStart(s) ==
  IF s # <<>> /\ Head(s) = " " THEN TrimStart(Tail(s)) ELSE s

RECURSIVE TrimEnd(_)
TrimEnd(s) ==
  IF s # <<>> /\ s[Len(s)] = " " THEN TrimEnd(SubSeq(s, 1, Len(s) - 1)) ELSE s

\* String.prototype.trim as used by addApiKey
Trim(s) == TrimEnd(TrimStart(s))

\* what the user may type into the key field
RawKeys ==
  { <<>>, <<" ">>, <<"a">>, <<" ", "a">>, <<"a", " ">>, <<"b">>, <<"c">> }

\* the pages (tabs) of index.html that may each run one translateText
Tabs == {"t1", "t2"}

----------------------------------------------------------------------------
(* The settings store.  getSetting's result is an option: <<v>> for a       *)
(* stored value v, <<>> for null.                                           *)

API_KEYS == "apiKeys"
LAST_KEY_INDEX == "lastKeyIndex"

saveSettingAdd(s, key, value) ==
  IF key \in DOMAIN s THEN s
  ELSE [k \in (DOMAIN s) \cup {key} |-> IF k = key THEN value ELSE s[k]]

\* db.js saveSetting: store.put({key, value}) replaces or inserts one record
saveSetting(s, key, value) ==
  [k \in (DOMAIN s) \cup {key} |-> IF k = key THEN value ELSE s[k]]

getSettingUnguarded(s, key) ==
  IF key \in DOMAIN s THEN <<s[key]>> ELSE <<"TypeError">>

\* db.js getSetting: request.result ? request.result.value : null
getSetting(s, key) ==
  IF key \in DOMAIN s THEN <<s[key]>> ELSE <<>>

\* (await getSetting("apiKeys")) || []
KeysOrEmpty(r) == IF Len(r) = 0 THEN <<>> ELSE r[1]

NullishMinusOneOr(r) == IF Len(r) = 0 \/ r[1] = 0 THEN -1 ELSE r[1]

\* (await getSetting("lastKeyIndex")) ?? -1
NullishMinusOne(r) == IF Len(r) = 0 THEN -1 ELSE r[1]

\* keys.length === 0
IsEmptyPool(k) == Len(k) = 0

NextIndexNoWrap(lastIndex, n) == lastIndex + 1

NextIndexResetAtEnd(lastIndex, n) ==
  IF lastIndex + 1 = n THEN 0 ELSE lastIndex + 1

\* (lastIndex + 1) % keys.length
NextIndex(lastIndex, n) == (lastIndex + 1) % n

StoreAfterEmptyPoolReset(s) == saveSetting(s, LAST_KEY_INDEX, -1)

\* `return null` on an empty pool comes before any saveSetting
StoreAfterEmptyPool(s) == s

ElementAtOffByOne(k, i) ==
  IF i + 2 \in DOMAIN k THEN [kind |-> "key", key |-> k[i + 2]]
  ELSE [kind |-> "undefined", key |-> <<>>]

\* keys[nextIndex]; an index outside the array reads undefined
ElementAt(k, i) ==
  IF i + 1 \in DOMAIN k THEN [kind |-> "key", key |-> k[i + 1]]
  ELSE [kind |-> "undefined", key |-> <<>>]

ReturnNull == [kind |-> "null", key |-> <<>>]
NoReturnYet == [kind |-> "none", key |-> <<>>]

\* the persisted pool and cursor, as getNextApiKey would read them now
Pool == KeysOrEmpty(getSetting(settings, API_KEYS))
Cursor == getSetting(settings, LAST_KEY_INDEX)

\* Array.prototype.splice(index, 1) with a 0-based index
Splice(k, index) ==
  IF index < Len(k)
  THEN SubSeq(k, 1, index) \o SubSeq(k, index + 2, Len(k))
  ELSE k

\* Array.prototype.includes
Includes(k, x) == \E i \in DOMAIN k : k[i] = x

CursorAfterDeleteKept(s) == s

\* deleteApiKey's second write: saveSetting(LAST_KEY_INDEX, -1)
CursorAfterDelete(s) == saveSetting(s, LAST_KEY_INDEX, -1)

----------------------------------------------------------------------------
(* Bounds *)

\* settings-page handlers that may be suspended at the same time
MaxPageOps == 2

----------------------------------------------------------------------------
(* The settings page (settings.js) *)

IdleCall == [pc |-> "idle", keys |-> <<>>, lastIndex |-> -1, nextIndex |-> 0]

CallsInFlight == {t \in Tabs : call[t].pc # "idle"}

OpsInFlight == pageOps.addRender + pageOps.delReset + pageOps.delRender

\* no call and no half-done deletion: the next operation runs on its own
Quiescent == CallsInFlight = {} /\ pageOps.delReset = 0

\* the history while no streak of sequential calls is being recorded
NoStreak(h) ==
  [h EXCEPT !.on = FALSE, !.log = <<>>, !.start = <<>>, !.fromDelete = FALSE,
            !.before = <<>>, !.removed = FALSE, !.reloadedAt = 0]

NoRace == [stage |-> "no", waiting |-> ""]

\* history of a race between two calls: when t stores its index while
\* another call that read the same pool and the same cursor has yet to
\* store its own, the race is half done; it is done when that call stores
RaceAfterSave(t) ==
  LET same == {u \in Tabs \ {t} :
                 /\ call[u].pc = "saveIndex"
                 /\ call[u].keys = call[t].keys
                 /\ call[u].lastIndex = call[t].lastIndex}
  IN IF same # {} THEN [stage |-> "half", waiting |-> CHOOSE u \in same : TRUE]
     ELSE IF hist.race.stage = "half" /\ hist.race.waiting = t
          THEN [stage |-> "both", waiting |-> ""]
     ELSE IF hist.race.stage = "half" THEN hist.race
     ELSE NoRace

\* the call that stored first calls again: its return value is about to
\* be replaced, the race is no longer recorded
RaceAfterBegin(t) ==
  IF hist.race.stage = "half" /\ hist.race.waiting # t THEN NoRace
  ELSE hist.race

StartStreak(h, fromDelete) ==
  [h EXCEPT !.on = TRUE, !.log = <<>>, !.start = Cursor',
            !.fromDelete = fromDelete, !.removed = FALSE,
            !.before = IF fromDelete THEN @ ELSE <<>>, !.reloadedAt = 0]

addApiKeyRawIncludes(k, s, raw) ==
  IF Trim(raw) = <<>> \/ Includes(k, raw)
  THEN [saved |-> FALSE, keys |-> k, settings |-> s]
  ELSE [saved |-> TRUE, keys |-> Append(k, Trim(raw)),
        settings |-> saveSetting(s, API_KEYS, Append(k, Trim(raw)))]

\* settings.js addApiKey on the page's list k and the store s: a blank key
\* and a key of the list are refused, any other is pushed and the list saved
addApiKey(k, s, raw) ==
  LET trimmedKey == Trim(raw) IN
  IF trimmedKey = <<>> \/ Includes(k, trimmedKey)
  THEN [saved |-> FALSE, keys |-> k, settings |-> s]
  ELSE [saved |-> TRUE, keys |-> Append(k, trimmedKey),
        settings |-> saveSetting(s, API_KEYS, Append(k, trimmedKey))]

\* addApiKey up to its await: validation, keys.push, the put of the pool
AddApiKey(raw) ==
  /\ OpsInFlight < MaxPageOps
  /\ IF ~addApiKey(keys, settings, raw).saved
     THEN UNCHANGED <<settings, keys, pageOps, hist>>
     ELSE /\ keys' = addApiKey(keys, settings, raw).keys
          /\ settings' = addApiKey(keys, settings, raw).settings
          /\ pageOps' = [pageOps EXCEPT !.addRender = @ + 1]
          /\ hist' =
               LET h == [hist EXCEPT !.overlapped = @ \/ ~Quiescent] IN
               IF Quiescent /\ (Cursor = <<>> \/ Cursor = <<-1>>)
               THEN StartStreak(h, FALSE)
               ELSE NoStreak(h)
  /\ UNCHANGED <<rendered, call, ret>>
  /\ UNCHANGED NotRot

\* addApiKey after its await: renderApiKeys
AddApiKeyRender ==
  /\ pageOps.addRender > 0
  /\ pageOps' = [pageOps EXCEPT !.addRender = @ - 1]
  /\ rendered' = Len(keys)
  /\ UNCHANGED <<settings, keys, call, ret, hist>>
  /\ UNCHANGED NotRot

\* deleteApiKey up to its first await: keys.splice and the put of the pool.
\* The index comes from a row the page shows.
DeleteApiKey(index) ==
  /\ OpsInFlight < MaxPageOps
  /\ index \in 0 .. rendered - 1
  /\ keys' = Splice(keys, index)
  /\ settings' = saveSetting(settings, API_KEYS, keys')
  /\ pageOps' = [pageOps EXCEPT !.delReset = @ + 1]
  /\ hist' = [NoStreak(hist) EXCEPT !.overlapped = @ \/ ~Quiescent,
                                    !.before = Cursor,
                                    !.removed = index < Len(keys)]
  /\ UNCHANGED <<rendered, call, ret>>
  /\ UNCHANGED NotRot

\* deleteApiKey between its awaits: the cursor reset
DeleteApiKeyReset ==
  /\ pageOps.delReset > 0
  /\ settings' = CursorAfterDelete(settings)
  /\ pageOps' = [pageOps EXCEPT !.delReset = @ - 1, !.delRender = @ + 1]
  /\ hist' = IF CallsInFlight = {} /\ pageOps.delReset = 1
             THEN [StartStreak(hist, hist.removed) EXCEPT !.overlapped = FALSE]
             ELSE hist
  /\ UNCHANGED <<keys, rendered, call, ret>>
  /\ UNCHANGED NotRot

\* deleteApiKey after its second await: renderApiKeys
DeleteApiKeyRender ==
  /\ pageOps.delRender > 0
  /\ pageOps' = [pageOps EXCEPT !.delRender = @ - 1]
  /\ rendered' = Len(keys)
  /\ UNCHANGED <<settings, keys, call, ret, hist>>
  /\ UNCHANGED NotRot

\* the settings page is loaded again: loadSettings reads the pool and renders
LoadSettings ==
  /\ OpsInFlight = 0
  /\ keys' = KeysOrEmpty(getSetting(settings, API_KEYS))
  /\ rendered' = Len(keys')
  /\ UNCHANGED <<settings, pageOps, call, ret, hist>>
  /\ UNCHANGED NotRot

----------------------------------------------------------------------------
(* getNextApiKey (db.js), one call per page at a time *)

\* translateText calls getNextApiKey: the read of the pool is requested
GetNextApiKeyBeginStep(t) ==
  /\ call[t].pc = "idle"
  /\ call' = [call EXCEPT ![t].pc = "readKeys"]
  /\ hist' = LET h == [hist EXCEPT !.race = RaceAfterBegin(t)] IN
             IF Quiescent THEN h
             ELSE [NoStreak(h) EXCEPT !.overlapped = TRUE]
  /\ UNCHANGED <<settings, keys, rendered, pageOps, ret>>

GetNextApiKeyBegin(t) == GetNextApiKeyBeginStep(t) /\ UNCHANGED NotRot

\* the pool arrives; an empty pool returns null
GetNextApiKeyReadKeysStep(t) ==
  /\ call[t].pc = "readKeys"
  /\ LET k == KeysOrEmpty(getSetting(settings, API_KEYS)) IN
     IF IsEmptyPool(k)
     THEN /\ ret' = [ret EXCEPT ![t] = ReturnNull]
          /\ call' = [call EXCEPT ![t] = IdleCall]
          /\ settings' = StoreAfterEmptyPool(settings)
     ELSE /\ call' = [call EXCEPT ![t].pc = "readIndex", ![t].keys = k]
          /\ UNCHANGED <<ret, settings>>
  /\ UNCHANGED <<keys, rendered, pageOps, hist>>

GetNextApiKeyReadKeys(t) == GetNextApiKeyReadKeysStep(t) /\ UNCHANGED NotRot

\* the cursor arrives; nextIndex is computed and its put requested
GetNextApiKeyReadIndexStep(t) ==
  /\ call[t].pc = "readIndex"
  /\ LET lastIndex == NullishMinusOne(getSetting(settings, LAST_KEY_INDEX)) IN
     call' = [call EXCEPT ![t].pc = "saveIndex",
                          ![t].lastIndex = lastIndex,
                          ![t].nextIndex = NextIndex(lastIndex, Len(call[t].keys))]
  /\ UNCHANGED <<settings, keys, rendered, pageOps, ret, hist>>

GetNextApiKeyReadIndex(t) == GetNextApiKeyReadIndexStep(t) /\ UNCHANGED NotRot

\* the cursor is stored; the call returns keys[nextIndex]
GetNextApiKeySaveStep(t) ==
  /\ call[t].pc = "saveIndex"
  /\ settings' = saveSetting(settings, LAST_KEY_INDEX, call[t].nextIndex)
  /\ ret' = [ret EXCEPT ![t] = ElementAt(call[t].keys, call[t].nextIndex)]
  /\ call' = [call EXCEPT ![t] = IdleCall]
  /\ hist' = LET h == [hist EXCEPT !.race = RaceAfterSave(t)] IN
             IF ~h.on THEN h
             ELSE IF Len(h.log) <= Len(Pool)
                  THEN [h EXCEPT !.log = Append(@, ret'[t])]
                  ELSE NoStreak(h)
  /\ UNCHANGED <<keys, rendered, pageOps>>

GetNextApiKeySave(t) == GetNextApiKeySaveStep(t) /\ UNCHANGED NotRot

----------------------------------------------------------------------------

InitRotWith(stored) ==
  /\ settings = stored
  /\ keys = <<>>
  /\ rendered = 0
  /\ pageOps = [addRender |-> 0, delReset |-> 0, delRender |-> 0]
  /\ call = [t \in Tabs |-> IdleCall]
  /\ ret = [t \in Tabs |-> NoReturnYet]
  /\ hist = [on |-> TRUE, log |-> <<>>,
             start |-> getSetting(stored, LAST_KEY_INDEX),
             fromDelete |-> FALSE, before |-> <<>>, removed |-> FALSE,
             overlapped |-> FALSE, race |-> NoRace, reloadedAt |-> 0]

InitRot == InitRotWith(<<>>)

----------------------------------------------------------------------------
(* openDB (db.js) *)

DB_VERSION == 3
SETTINGS_STORE == "settings"
HISTORY_STORE == "history"
LANGUAGES_STORE == "languages"

\* the store operations of one page that await openDB
StoreOps == {"o1", "o2", "o3"}

\* `if (db) return resolve(db)`: only an established connection is reused
IsConnected(d, pending) == d # 0

\* request.onupgradeneeded: runs when the stored version is older, and
\* creates each object store that is missing
UpgradeNeeded(base) ==
  IF base.version < DB_VERSION
  THEN [version |-> DB_VERSION,
        stores |-> base.stores \cup {SETTINGS_STORE, HISTORY_STORE, LANGUAGES_STORE}]
  ELSE base

\* the history of a session: whether an open request has failed, and which
\* store operations in progress called openDB after that
NoFailure == [failed |-> FALSE, after |-> [c \in StoreOps |-> FALSE]]

\* a store operation calls openDB: an established connection resolves at
\* once, otherwise indexedDB.open is called
OpenDB(c) ==
  /\ opPc[c] = "idle"
  /\ IF IsConnected(db, opens)
     THEN /\ opPc' = [opPc EXCEPT ![c] = "ready"]
          /\ UNCHANGED opens
     ELSE /\ opPc' = [opPc EXCEPT ![c] = "opening"]
          /\ opens' = Append(opens, c)
  /\ dhist' = [dhist EXCEPT !.after[c] = dhist.failed]
  /\ UNCHANGED <<idb, db>>
  /\ UNCHANGED NotDB

\* request.onsuccess of the oldest open request (after onupgradeneeded)
OpenSuccess ==
  /\ opens # <<>>
  /\ idb' = UpgradeNeeded(idb)
  /\ db' = db + 1
  /\ opPc' = [opPc EXCEPT ![Head(opens)] = "ready"]
  /\ opens' = Tail(opens)
  /\ UNCHANGED dhist
  /\ UNCHANGED NotDB

OpensAfterErrorRetried(pending) == Append(Tail(pending), Head(pending))

\* request.onerror only logs and rejects: the request is gone and openDB
\* issues no other
OpensAfterError(pending) == Tail(pending)

\* request.onerror of the oldest open request: reject("Database error")
OpenError ==
  /\ opens # <<>>
  /\ opPc' = [opPc EXCEPT ![Head(opens)] = "failed"]
  /\ opens' = OpensAfterError(opens)
  /\ dhist' = [dhist EXCEPT !.failed = TRUE]
  /\ UNCHANGED <<idb, db>>
  /\ UNCHANGED NotDB

\* the store operation runs its transaction, or rejects, and ends
StoreOpEnd(c) ==
  /\ opPc[c] \in {"ready", "failed"}
  /\ opPc' = [opPc EXCEPT ![c] = "idle"]
  /\ dhist' = [dhist EXCEPT !.after[c] = FALSE]
  /\ UNCHANGED <<idb, db, opens>>
  /\ UNCHANGED NotDB

\* theme.js request.onupgradeneeded: runs when the stored version is older
\* than theme.js's DB_VERSION, which is db.js's, and creates the settings
\* store if it is missing
ThemeUpgradeNeeded(base) ==
  IF base.version < DB_VERSION
  THEN [version |-> DB_VERSION, stores |-> base.stores \cup {SETTINGS_STORE}]
  ELSE base

\* theme.js getThemeSetting, run by every page as it loads: its own
\* indexedDB.open of the same database, served when no earlier request is
\* pending.  The theme it resolves to goes to the document and is not
\* modelled; db.js's `db` is not touched.
GetThemeSetting ==
  /\ opens = <<>>
  /\ idb.version < DB_VERSION
  /\ idb' = ThemeUpgradeNeeded(idb)
  /\ UNCHANGED <<db, opens, opPc, dhist>>
  /\ UNCHANGED NotDB

InitDB ==
  /\ idb = [version |-> 0, stores |-> {}]
  /\ db = 0
  /\ opens = <<>>
  /\ opPc = [c \in StoreOps |-> "idle"]
  /\ dhist = NoFailure

NextDB ==
  \/ \E c \in StoreOps : OpenDB(c)
  \/ OpenSuccess
  \/ OpenError
  \/ \E c \in StoreOps : StoreOpEnd(c)

----------------------------------------------------------------------------
(* The language registry (languages.js, languageService.js) *)

Lang(code, name, englishName, dir) ==
  [code |-> code, name |-> name, englishName |-> englishName, dir |-> dir]

\* languages.js LANGUAGES; the Persian display names are transliterated
BASE_LANGUAGES ==
  << Lang("auto", "tashkhis-e khodkar", "Auto-Detect", "ltr"),
     Lang("fa", "farsi", "Persian (Farsi)", "rtl"),
     Lang("en", "engelisi", "English", "ltr"),
     Lang("ar", "arabi", "Arabic", "rtl"),
     Lang("de", "almani", "German", "ltr"),
     Lang("fr", "faransavi", "French", "ltr"),
     Lang("es", "espaniayi", "Spanish", "ltr"),
     Lang("ru", "rusi", "Russian", "ltr"),
     Lang("zh", "chini", "Chinese", "ltr"),
     Lang("ja", "zhaponi", "Japanese", "ltr") >>

CodesOf(cat) == {cat[i].code : i \in DOMAIN cat}

BaseCodes == CodesOf(BASE_LANGUAGES)

\* descriptors a model response may carry in newLanguageInfo: a new
\* language, a built-in code under another name, and malformed ones.
\* <<>> stands for a missing (null) descriptor, "" for a missing field.
ItLang == Lang("it", "italiayi", "Italian", "ltr")
FrCustom == Lang("fr", "faranse", "French", "ltr")
NoCodeLang == Lang("", "keling", "Klingon", "ltr")
\* a second answer of the model for Italian, with another display name
ItAgain == Lang("it", "italiano", "Italian", "ltr")
NoNameLang == Lang("tlh", "", "Klingon", "ltr")

LangInputs ==
  { <<>>, <<ItLang>>, <<FrCustom>>, <<NoCodeLang>>, <<NoNameLang>> }

\* the codes a stored descriptor may have, in IndexedDB key order
CodeOrder == <<"fr", "it", "tlh">>

Readers == {"r1", "r2"}
Loader == "m"
Adder == "a1"
LangProcs == {Loader, Adder} \cup Readers

\* db.js saveLanguage: store.put(langObject) with keyPath "code"
saveLanguage(store, lang) ==
  [c \in (DOMAIN store) \cup {lang.code} |->
     IF c = lang.code THEN lang ELSE store[c]]

RECURSIVE GetAllFrom(_, _)
GetAllFrom(store, order) ==
  IF order = <<>> THEN <<>>
  ELSE IF Head(order) \in DOMAIN store
       THEN <<store[Head(order)]>> \o GetAllFrom(store, Tail(order))
       ELSE GetAllFrom(store, Tail(order))

getCustomLanguagesNone(store) == <<>>

\* db.js getCustomLanguages: store.getAll(), in key order
getCustomLanguages(store) == GetAllFrom(store, CodeOrder)

\* Map.prototype.set on a map kept as the sequence of its values: a known
\* code keeps its place and takes the new value, a new code goes last
MapSet(m, lang) ==
  IF \E i \in DOMAIN m : m[i].code = lang.code
  THEN [i \in DOMAIN m |-> IF m[i].code = lang.code THEN lang ELSE m[i]]
  ELSE Append(m, lang)

RECURSIVE SetEach(_, _)
\* langs.forEach((lang) => languagesMap.set(lang.code, lang))
\* (the map built so far is bound as a value, so that each step reads it once)
SetEach(m, langs) ==
  IF langs = <<>> THEN m
  ELSE CHOOSE languagesMap \in
         { SetEach(MapSet(soFar, Head(langs)), Tail(langs)) : soFar \in {m} } :
         TRUE

MergeBaseLast(base, custom) == SetEach(SetEach(<<>>, custom), base)

\* loadLanguages: the base languages are set first, then the custom ones
MergeLanguages(base, custom) == SetEach(SetEach(<<>>, base), custom)

\* mergedLanguages.reduce((acc, lang) => { acc[lang.code] = lang.name })
NamesOf(m) ==
  [c \in {m[i].code : i \in DOMAIN m} |->
     LET last == CHOOSE i \in DOMAIN m :
                   /\ m[i].code = c
                   /\ \A j \in DOMAIN m : m[j].code = c => j <= i
     IN m[last].name]

IsCacheEmptyAlways(m) == TRUE

\* mergedLanguages.length === 0
IsCacheEmpty(m) == Len(m) = 0

\* Object.keys(langNamesMap).length === 0
IsNamesEmpty(n) == DOMAIN n = {}

IsInvalidLangCodeOnly(opt) == Len(opt) = 0 \/ opt[1].code = ""

\* !langObject || !langObject.code || !langObject.name
IsInvalidLang(opt) ==
  Len(opt) = 0 \/ opt[1].code = "" \/ opt[1].name = ""

CacheAfterSaveKept(m) == m

\* addNewLanguage after saveLanguage: mergedLanguages = []
CacheAfterSave(m) == <<>>

NamesAfterSaveKept(n) == n

\* addNewLanguage after saveLanguage: langNamesMap = {}
NamesAfterSave(n) == <<>>

IdleProc == [pc |-> "idle", op |-> "none", lang |-> <<>>]

NoResult ==
  [kind |-> "none", langs |-> <<>>, names |-> <<>>, from |-> <<>>,
   need |-> {}, read |-> FALSE]

\* what a reader's call returns, with the history the claims read: the
\* store contents the cache was built from, the codes registered before
\* the call began, and whether the call had the store read
ResultOf(op, merged, names, from, need, read) ==
  IF op = "all"
  THEN [kind |-> "all", langs |-> merged, names |-> <<>>, from |-> from,
        need |-> need, read |-> read]
  ELSE [kind |-> "names", langs |-> <<>>, names |-> names, from |-> from,
        need |-> need, read |-> read]

RegistryIdle == langTx = <<>> /\ \A p \in LangProcs : lp[p].pc = "idle"

\* the registry of a page as one value, so that a continuation which makes
\* several registry calls in a row is one step
LangState ==
  [languages |-> languages, mergedLanguages |-> mergedLanguages,
   langNamesMap |-> langNamesMap, langTx |-> langTx, lp |-> lp,
   lret |-> lret, lhist |-> lhist]

SetLangState(r) ==
  \E s \in {r} :
    /\ languages' = s.languages
    /\ mergedLanguages' = s.mergedLanguages
    /\ langNamesMap' = s.langNamesMap
    /\ langTx' = s.langTx
    /\ lp' = s.lp
    /\ lret' = s.lret
    /\ lhist' = s.lhist

\* getAllLanguages: an empty cache starts loadLanguages, whose read of the
\* custom languages is requested; otherwise the cached catalog is returned
getAllLanguages(r, p) ==
  IF IsCacheEmpty(r.mergedLanguages)
  THEN [r EXCEPT !.lp[p] = [pc |-> "wait", op |-> "all", lang |-> <<>>],
                 !.langTx = Append(@, p),
                 !.lret[p] = [NoResult EXCEPT !.need = r.lhist.added,
                                              !.read = TRUE]]
  ELSE [r EXCEPT !.lret[p] =
          ResultOf("all", r.mergedLanguages, r.langNamesMap,
                   r.lhist.cacheFrom, r.lhist.added, FALSE)]

\* getLangNames: the same, deciding on the name map
getLangNames(r, p) ==
  IF IsNamesEmpty(r.langNamesMap)
  THEN [r EXCEPT !.lp[p] = [pc |-> "wait", op |-> "names", lang |-> <<>>],
                 !.langTx = Append(@, p),
                 !.lret[p] = [NoResult EXCEPT !.need = r.lhist.added,
                                              !.read = TRUE]]
  ELSE [r EXCEPT !.lret[p] =
          ResultOf("names", r.mergedLanguages, r.langNamesMap,
                   r.lhist.cacheFrom, r.lhist.added, FALSE)]

\* the oldest transaction is a read
ReadIsNext(r) ==
  r.langTx # <<>> /\ r.lp[Head(r.langTx)].op \in {"load", "all", "names"}

\* the oldest transaction is the put of addNewLanguage
PutIsNext(r) ==
  r.langTx # <<>> /\ r.lp[Head(r.langTx)].op = "add"

\* the read succeeds: loadLanguages gets the custom languages, rebuilds
\* both caches, and its caller returns
loadLanguages(r) ==
  LET p == Head(r.langTx)
      customLanguages == getCustomLanguages(r.languages)
      merged == MergeLanguages(BASE_LANGUAGES, customLanguages)
  IN [r EXCEPT
        !.mergedLanguages = merged,
        !.langNamesMap = NamesOf(merged),
        !.lret = IF p \in Readers
                 THEN [@ EXCEPT ![p] =
                         ResultOf(r.lp[p].op, merged, NamesOf(merged),
                                  r.languages, @.need, TRUE)]
                 ELSE @,
        !.lp[p] = IdleProc,
        !.langTx = Tail(@),
        !.lhist.cacheFrom = r.languages,
        !.lhist.raced = @ \/ \E i \in DOMAIN r.langTx :
                                r.lp[r.langTx[i]].op = "add"]

\* the read fails: loadLanguages rejects and so does its caller
loadLanguagesRejected(r) ==
  LET p == Head(r.langTx) IN
  [r EXCEPT
     !.lret = IF p \in Readers
              THEN [@ EXCEPT ![p] = [NoResult EXCEPT !.kind = "rejected"]]
              ELSE @,
     !.lp[p] = IdleProc,
     !.langTx = Tail(@)]

\* addNewLanguage up to its await: an invalid descriptor is logged and
\* dropped, a valid one has its put requested
addNewLanguage(r, opt) ==
  LET called == [r EXCEPT !.lhist.lastAddArg = opt, !.lhist.tick = ~@] IN
  IF IsInvalidLang(opt)
  THEN called
  ELSE [called EXCEPT
          !.lp[Adder] = [pc |-> "wait", op |-> "add", lang |-> opt],
          !.langTx = Append(@, Adder)]

\* the put succeeds: the descriptor is stored and addNewLanguage empties
\* both caches
addNewLanguageSaved(r) ==
  LET p == Head(r.langTx) IN
  [r EXCEPT
     !.languages = saveLanguage(@, r.lp[p].lang[1]),
     !.mergedLanguages = CacheAfterSave(@),
     !.langNamesMap = NamesAfterSave(@),
     !.lp[p] = IdleProc,
     !.langTx = Tail(@),
     !.lhist.added = @ \cup {r.lp[p].lang[1].code},
     !.lhist.cacheFrom = <<>>,
     !.lhist.lastPut = IF Len(r.mergedLanguages) > 0 THEN "savedLoaded"
                       ELSE "savedEmpty"]

\* the put fails: addNewLanguage rejects before it reaches the lines that
\* empty the caches
addNewLanguageRejected(r) ==
  [r EXCEPT !.lp[Head(r.langTx)] = IdleProc, !.langTx = Tail(@),
            !.lhist.lastPut = "rejected"]

GetAllLanguages(p) ==
  /\ lp[p].pc = "idle"
  /\ SetLangState(getAllLanguages(LangState, p))
  /\ UNCHANGED NotLang

GetLangNames(p) ==
  /\ lp[p].pc = "idle"
  /\ SetLangState(getLangNames(LangState, p))
  /\ UNCHANGED NotLang

LoadLanguagesDone ==
  /\ ReadIsNext(LangState)
  /\ SetLangState(loadLanguages(LangState))
  /\ UNCHANGED NotLang

LoadLanguagesFail ==
  /\ ReadIsNext(LangState)
  /\ SetLangState(loadLanguagesRejected(LangState))
  /\ UNCHANGED NotLang

AddNewLanguage(opt) ==
  /\ lp[Adder].pc = "idle"
  /\ SetLangState(addNewLanguage(LangState, opt))
  /\ UNCHANGED NotLang

AddNewLanguageDone ==
  /\ PutIsNext(LangState)
  /\ SetLangState(addNewLanguageSaved(LangState))
  /\ UNCHANGED NotLang

AddNewLanguageFail ==
  /\ PutIsNext(LangState)
  /\ SetLangState(addNewLanguageRejected(LangState))
  /\ UNCHANGED NotLang

\* the module has just been imported: its last line has called
\* loadLanguages, whose read is requested
ImportedRegistry ==
  [languages |-> <<>>, mergedLanguages |-> <<>>, langNamesMap |-> <<>>,
   langTx |-> <<Loader>>,
   lp |-> [p \in LangProcs |->
             IF p = Loader THEN [pc |-> "wait", op |-> "load", lang |-> <<>>]
             ELSE IdleProc],
   lret |-> [p \in Readers |-> NoResult],
   lhist |-> [added |-> {}, cacheFrom |-> <<>>, raced |-> FALSE,
              lastAddArg |-> <<>>, tick |-> FALSE, lastPut |-> "none"]]

InitLangWith(r) ==
  /\ languages = r.languages
  /\ mergedLanguages = r.mergedLanguages
  /\ langNamesMap = r.langNamesMap
  /\ langTx = r.langTx
  /\ lp = r.lp
  /\ lret = r.lret
  /\ lhist = r.lhist

InitLang == InitLangWith(ImportedRegistry)

NextLang ==
  \/ \E p \in Readers : GetAllLanguages(p)
  \/ \E p \in Readers : GetLangNames(p)
  \/ LoadLanguagesDone
  \/ LoadLanguagesFail
  \/ \E opt \in LangInputs : AddNewLanguage(opt)
  \/ AddNewLanguageDone
  \/ AddNewLanguageFail

----------------------------------------------------------------------------
(* A translation run (main.js handleTranslation, api.js translateText) *)

MaxNow == 2

\* what the source box may hold: nothing, blanks, a text
Texts == { <<>>, <<" ">>, <<"h">> }

\* state.targetLang at main.js:494
TARGET_LANG == "fa"

\* the pool a page may find persisted when it is opened
StoredPools == { <<>>, << <<"a">> >>, << <<"a">>, <<"b">> >> }

Translated(detected, text, info) ==
  << [detectedSourceLanguage |-> detected, translatedText |-> text,
      newLanguageInfo |-> info] >>

\* what JSON.parse may hand back from the model's text: null (<<>>), a
\* known language, an unknown language with a descriptor, without one, and
\* with a descriptor that lacks its name
Results ==
  { <<>>,
    Translated("en", "salam", <<>>),
    Translated("it", "dorud", <<ItLang>>),
    Translated("it", "dorud", <<>>),
    Translated("tlh", "nuqneH", <<NoNameLang>>) }

\* the page's own registry caller, for buildUnifiedPrompt and for
\* handleTranslation
PageReader == "r1"
PageCall == "t1"

\* the source language a direct caller of translateText may pass
SourceLangs == {"auto", "en"}

\* HTTP status codes of an answer that is not ok
Statuses == {400, 429}

\* The model's text is a sequence of tokens: the opening fence ```json, the
\* closing fence ```, a line break, a JSON value (v holds what JSON.parse
\* makes of it) and a word that is no JSON.
Tok(kind, v) == [kind |-> kind, v |-> v]

FENCE_JSON == Tok("fenceJson", <<>>)
FENCE == Tok("fence", <<>>)
NL == Tok("nl", <<>>)
WORD == Tok("word", <<>>)
Json(result) == Tok("json", <<result>>)

\* \s
IsSpace(tok) == tok.kind = "nl"

RECURSIVE DropSpaces(_)
DropSpaces(text) ==
  IF text # <<>> /\ IsSpace(Head(text)) THEN DropSpaces(Tail(text)) ELSE text

RECURSIVE DropSpacesAtEnd(_)
DropSpacesAtEnd(text) ==
  IF text # <<>> /\ IsSpace(text[Len(text)])
  THEN DropSpacesAtEnd(SubSeq(text, 1, Len(text) - 1))
  ELSE text

\* /^```json\s*/: the opening fence at the very start, with the white space
\* behind it
StripLeadingFence(text) ==
  IF text # <<>> /\ Head(text) = FENCE_JSON THEN DropSpaces(Tail(text))
  ELSE text

\* /```$/: the closing fence at the very end
StripTrailingFence(text) ==
  IF text # <<>> /\ text[Len(text)] = FENCE
  THEN SubSeq(text, 1, Len(text) - 1)
  ELSE text

StripFencesLeadingOnly(text) == StripLeadingFence(text)

\* jsonString.replace(/^```json\s*|```$/g, "")
StripFences(text) == StripTrailingFence(StripLeadingFence(text))

\* JSON.parse: one JSON value with white space around it, or a SyntaxError
JsonParse(text) ==
  LET bare == DropSpacesAtEnd(DropSpaces(text)) IN
  IF Len(bare) = 1 /\ bare[1].kind = "json"
  THEN [ok |-> TRUE, value |-> bare[1].v[1]]
  ELSE [ok |-> FALSE, value |-> <<>>]

\* What fetch settles with.  body: whether response.json() resolves;
\* text: <<>> when candidates[0].content.parts[0].text is undefined, else
\* <<the text>>.
Response(sent, ok, status, body, text) ==
  [sent |-> sent, ok |-> ok, status |-> status, body |-> body, text |-> text]

NetworkError == Response(FALSE, FALSE, 0, FALSE, <<>>)

NotOk(status) == Response(TRUE, FALSE, status, TRUE, <<>>)

NotOkUnreadable(status) == Response(TRUE, FALSE, status, FALSE, <<>>)

BadBody == Response(TRUE, TRUE, 200, FALSE, <<>>)

NoText == Response(TRUE, TRUE, 200, TRUE, <<>>)

EmptyText == Response(TRUE, TRUE, 200, TRUE, << <<>> >>)

Answer(text) == Response(TRUE, TRUE, 200, TRUE, <<text>>)

NotJson == Answer(<<WORD>>)

Parsed(result) == Answer(<<Json(result)>>)

\* a leading ```json line, the JSON text, a trailing ``` line
Fenced(result) == Answer(<<FENCE_JSON, NL, Json(result), NL, FENCE>>)

\* the same with a line break behind the closing fence
FencedLine(result) == Answer(<<FENCE_JSON, NL, Json(result), NL, FENCE, NL>>)

\* how the fetch may settle: it rejects, the status is not ok (the error
\* body readable or not), the body of a success is no JSON, the envelope
\* has no model text or an empty one, the text is not JSON, or it is a
\* result, bare or fenced
Responses ==
  {NetworkError, BadBody, NoText, EmptyText, NotJson}
    \cup {NotOk(status) : status \in Statuses}
    \cup {NotOkUnreadable(status) : status \in Statuses}
    \cup {Parsed(result) : result \in Results}
    \cup {Fenced(result) : result \in Results}
    \cup {FencedLine(result) : result \in Results}

\* the message of an Error: a fixed text of the program, or the text the
\* collaborator gives for a status; raw is model text quoted in it
Literal(name) == [text |-> name, status |-> 0, raw |-> <<>>]

\* httpErrors.js getErrorMessage(statusCode): a message that depends on
\* the status code alone
getErrorMessage(statusCode) ==
  [text |-> "getErrorMessage", status |-> statusCode, raw |-> <<>>]

Thrown(kind, message) == [error |-> kind, message |-> message, value |-> <<>>]

Rejected(kind) == Thrown(kind, Literal(kind))

Returned(result) ==
  [error |-> "none", message |-> Literal("none"), value |-> <<result>>]

RemoteRejectedBodyFirst(resp) ==
  IF resp.body THEN Thrown("RemoteRejected", getErrorMessage(resp.status))
  ELSE Thrown("SyntaxError", Literal("SyntaxError"))

\* if (!response.ok): the error carries getErrorMessage(statusCode); the
\* body is read inside try/catch, for console.error only
RemoteRejected(resp) == Thrown("RemoteRejected", getErrorMessage(resp.status))

NoModelTextUndefinedOnly(text) == text = <<>>

\* if (!jsonString): undefined and the empty string
NoModelText(text) == text = <<>> \/ text[1] = <<>>

UnparsableQuotingText(jsonString) ==
  Thrown("UnparsableResult",
         [text |-> "UnparsableResult", status |-> 0, raw |-> jsonString])

\* catch (e): the text is logged and the Error has a fixed message
Unparsable(jsonString) == Rejected("UnparsableResult")

ParseModelTextKeepingText(jsonString) ==
  LET p == JsonParse(StripFences(jsonString)) IN
  IF p.ok THEN Returned(p.value)
  ELSE [error |-> "UnparsableResult", message |-> Literal("UnparsableResult"),
        value |-> <<Translated("", "raw", <<>>)>>]

\* the try block: the fences are stripped and JSON.parse's value returned
ParseModelText(jsonString) ==
  LET p == JsonParse(StripFences(jsonString)) IN
  IF p.ok THEN Returned(p.value) ELSE Unparsable(jsonString)

\* translateText from the fetch on: a rejected fetch, `!response.ok`, a
\* failing response.json(), `!jsonString` and a failing JSON.parse each
\* throw; otherwise the parsed value is returned as it is
Classify(resp) ==
  IF ~resp.sent THEN Rejected("NetworkFailure")
  ELSE IF ~resp.ok THEN RemoteRejected(resp)
  ELSE IF ~resp.body THEN Rejected("SyntaxError")
  ELSE IF NoModelText(resp.text) THEN Rejected("MalformedResponse")
  ELSE ParseModelText(resp.text[1])

NoApiKeyNever(apiKey) == FALSE

\* if (!apiKey): null, undefined and the empty string
NoApiKey(apiKey) == apiKey.kind # "key" \/ apiKey.key = <<>>

IsBlankNever(text) == FALSE

\* if (!text.trim())
IsBlank(text) == Trim(text) = <<>>

\* { detectedSourceLanguage: sourceLang, translatedText: "" }
ShortCircuit(sourceLang) ==
  [detectedSourceLanguage |-> sourceLang, translatedText |-> ""]

IdleRun ==
  [pc |-> "idle", direct |-> FALSE, text |-> <<>>, sourceLang |-> "",
   targetLang |-> "", result |-> <<>>, item |-> <<>>]

\* history of a run that is about to start
NewRun(text, sourceLang) ==
  [returned |-> FALSE, info |-> <<>>, unknown |-> FALSE,
   before |-> Cardinality(DOMAIN history), invalidations |-> 0,
   reached |-> "key", outcome |-> "none", text |-> text,
   sourceLang |-> sourceLang, hadKey |-> FALSE, fetches |-> 0, draws |-> 0,
   error |-> "none", value |-> <<>>, message |-> Literal("none"),
   answer |-> <<>>, cursor |-> Cursor]


HasNewLanguageInfoNever(r) == FALSE

\* if (result.newLanguageInfo)
HasNewLanguageInfo(r) == Len(r.newLanguageInfo) > 0

DetectedLangExistsAlways(allLangs, r) == TRUE

\* allLangs.some((l) => l.code === result.detectedSourceLanguage)
DetectedLangExists(allLangs, r) ==
  \E i \in DOMAIN allLangs : allLangs[i].code = r.detectedSourceLanguage

\* state.sourceLang after the check at main.js:561
SourceLangAfter(st, allLangs, r) ==
  IF r.detectedSourceLanguage # "" /\ DetectedLangExists(allLangs, r)
  THEN [st EXCEPT !.sourceLang = r.detectedSourceLanguage]
  ELSE st

\* the record handed to addHistoryItem
HistoryItem(id, r, st, text) ==
  [id |-> id, sourceLang |-> r.detectedSourceLanguage,
   targetLang |-> st.targetLang, sourceText |-> text,
   targetText |-> r.translatedText]

addHistoryItemPut(store, item) ==
  [ok |-> TRUE,
   store |-> [i \in (DOMAIN store) \cup {item.id} |->
                IF i = item.id THEN item ELSE store[i]]]

\* db.js addHistoryItem: store.add(item) with keyPath "id"; an id that is
\* already stored makes the request fail and leaves the store as it was
addHistoryItem(store, item) ==
  IF item.id \in DOMAIN store
  THEN [ok |-> FALSE, store |-> store]
  ELSE [ok |-> TRUE,
        store |-> [i \in (DOMAIN store) \cup {item.id} |->
                     IF i = item.id THEN item ELSE store[i]]]

toggleLoadingOff(st, isLoading) == [st EXCEPT !.isTranslating = FALSE]

toggleLoadingOn(st, isLoading) == [st EXCEPT !.isTranslating = TRUE]

\* main.js toggleLoading: state.isTranslating = isLoading (the button and
\* the spinner are no state of the model)
toggleLoading(st, isLoading) == [st EXCEPT !.isTranslating = isLoading]

\* catch (if the try block threw) and finally: toggleLoading(false)
RunEnds(h, outcome) ==
  /\ state' = toggleLoading(state, FALSE)
  /\ run' = IdleRun
  /\ thist' = [h EXCEPT !.outcome = outcome]

\* a direct call of translateText settles
CallEnds(h, outcome) ==
  /\ run' = IdleRun
  /\ thist' = [h EXCEPT !.outcome = outcome]
  /\ UNCHANGED state

\* translateText throws
TranslateThrows(h, o) ==
  LET h2 == [h EXCEPT !.error = o.error, !.value = o.value,
                      !.message = o.message] IN
  IF run.direct THEN CallEnds(h2, "translateFailed")
  ELSE RunEnds(h2, "translateFailed")

\* allLangs has arrived in handleTranslation: the source language is
\* updated and the history record, stamped with Date.now(), is handed to
\* addHistoryItem (state.autoCopyResult is false unless it was stored).
\* The record takes state.targetLang and sourceTextarea.value as they are
\* at this point (main.js:573-579).
AfterAllLangs(result, allLangs, h) ==
  LET r == result[1]
      st == SourceLangAfter(state, allLangs, r)
  IN /\ state' = st
     /\ run' = [run EXCEPT !.pc = "hist", !.result = result,
                           !.item = <<HistoryItem(now, r, st,
                                                  sourceTextarea)>>]
     /\ thist' = [h EXCEPT !.reached = "hist"]

\* handleTranslation calls getAllLanguages on the registry r: a cached
\* catalog goes on at once, an empty cache waits for loadLanguages
WithAllLangs(result, h, r) ==
  LET r2 == getAllLanguages(r, PageReader) IN
  /\ SetLangState(r2)
  /\ IF r2.lp[PageReader].pc = "idle"
     THEN AfterAllLangs(result, r2.lret[PageReader].langs, h)
     ELSE /\ run' = [run EXCEPT !.pc = "langs", !.result = result]
          /\ thist' = [h EXCEPT !.reached = "langs"]
          /\ UNCHANGED state

\* handleTranslation after `await translateText(...)`: it reads
\* result.translatedText (a TypeError on null), registers the new language
\* if there is one, and otherwise asks for the catalog
HandlerContinues(result, h) ==
  IF Len(result) = 0
  THEN /\ RunEnds([h EXCEPT !.returned = TRUE], "laterFailed")
       /\ UNCHANGED langVars
  ELSE LET r == result[1]
           h2 == [h EXCEPT
                    !.returned = TRUE,
                    !.info = r.newLanguageInfo,
                    !.unknown = r.detectedSourceLanguage
                                  \notin CodesOf(BASE_LANGUAGES)
                                           \cup DOMAIN languages]
       IN IF HasNewLanguageInfo(r) /\ ~IsInvalidLang(r.newLanguageInfo)
          THEN /\ SetLangState(addNewLanguage(LangState, r.newLanguageInfo))
               /\ run' = [run EXCEPT !.pc = "add", !.result = result]
               /\ thist' = [h2 EXCEPT !.reached = "add"]
               /\ UNCHANGED state
          ELSE WithAllLangs(result, h2, LangState)

\* the value of a text box that is given a string of the model: the empty
\* string is the empty text, any other string is a text of one piece
AsText(string) == IF string = "" THEN <<>> ELSE <<string>>

\* targetTextarea.value = result.translatedText (main.js:546); a direct
\* caller of translateText has no text box, and a null result throws
TargetAfter(result) ==
  IF run.direct \/ Len(result) = 0 THEN targetTextarea
  ELSE AsText(result[1].translatedText)

\* what translateText returns for a blank text
ShortCircuitResult(sourceLang) ==
  <<[detectedSourceLanguage |-> ShortCircuit(sourceLang).detectedSourceLanguage,
     translatedText |-> ShortCircuit(sourceLang).translatedText,
     newLanguageInfo |-> <<>>]>>

\* translateText returns result to its caller
TranslateReturns(result, h) ==
  IF run.direct
  THEN /\ CallEnds([h EXCEPT !.value = <<result>>], "returned")
       /\ UNCHANGED langVars
  ELSE HandlerContinues(result, h)

\* translateText after `await getNextApiKey()`: no key throws, a blank text
\* returns at once, otherwise buildUnifiedPrompt calls getAllLanguages and,
\* with the catalog at hand, the request is sent
AfterApiKey(apiKey, h) ==
  IF NoApiKey(apiKey)
  THEN /\ TranslateThrows(h, Rejected("NoCredential"))
       /\ UNCHANGED langVars
  ELSE IF IsBlank(run.text)
  THEN TranslateReturns(ShortCircuitResult(run.sourceLang), h)
  ELSE LET r2 == getAllLanguages(LangState, PageReader) IN
       /\ SetLangState(r2)
       /\ IF r2.lp[PageReader].pc = "idle"
          THEN /\ run' = [run EXCEPT !.pc = "fetch"]
               /\ thist' = [h EXCEPT !.reached = "fetch", !.fetches = @ + 1]
          ELSE /\ run' = [run EXCEPT !.pc = "prompt"]
               /\ thist' = [h EXCEPT !.reached = "prompt"]
       /\ UNCHANGED state

\* the main page's own registry caller for its event handlers
UIReader == "r2"

MaxUiOps == 2

\* the main page as one value: a handler is a function on it
UiPage ==
  [state |-> state, sourceTextarea |-> sourceTextarea,
   targetTextarea |-> targetTextarea, langModal |-> langModal,
   uiOps |-> uiOps, reg |-> LangState]

SetUiPage(pg) ==
  \E s \in {pg} :
    /\ state' = s.state
    /\ sourceTextarea' = s.sourceTextarea
    /\ targetTextarea' = s.targetTextarea
    /\ langModal' = s.langModal
    /\ uiOps' = s.uiOps
    /\ SetLangState(s.reg)

\* loadLanguages is started for a handler of the main page
UiRead(r, kind) ==
  [r EXCEPT !.lp[UIReader] = [pc |-> "wait",
                              op |-> IF kind = "input" THEN "names"
                                     ELSE "all",
                              lang |-> <<>>],
            !.langTx = Append(@, UIReader),
            !.lret[UIReader] = [NoResult EXCEPT !.need = r.lhist.added,
                                                !.read = TRUE]]

\* a handler finds the cache empty and is suspended in loadLanguages.  The
\* reads of the suspended handlers are requested one after the other.
Suspend(pg, kind) ==
  IF pg.uiOps = <<>>
  THEN [pg EXCEPT !.uiOps = <<kind>>, !.reg = UiRead(pg.reg, kind)]
  ELSE [pg EXCEPT !.uiOps = Append(@, kind)]

\* main.js updateUI: it awaits getAllLanguages and then writes labels and
\* text directions, which are no state of the model
updateUI(pg) ==
  IF IsCacheEmpty(pg.reg.mergedLanguages) THEN Suspend(pg, "updateUI")
  ELSE pg

handleSwapPlain(pg) ==
  IF pg.state.isTranslating THEN pg
  ELSE updateUI(
         [pg EXCEPT !.state.sourceLang = pg.state.targetLang,
                    !.state.targetLang = pg.state.sourceLang,
                    !.sourceTextarea = pg.targetTextarea,
                    !.targetTextarea = pg.sourceTextarea])

\* main.js handleSwap
handleSwap(pg) ==
  IF pg.state.isTranslating THEN pg
  ELSE updateUI(
         [pg EXCEPT
            !.state.sourceLang = pg.state.targetLang,
            !.state.targetLang = IF pg.state.sourceLang = "auto" THEN "en"
                                 ELSE pg.state.sourceLang,
            !.sourceTextarea = pg.targetTextarea,
            !.targetTextarea = pg.sourceTextarea])

\* main.js closeLanguageModal
closeLanguageModal(pg) ==
  [pg EXCEPT !.langModal.hidden = TRUE, !.state.modalContext = "none"]

\* main.js handleLanguageSelection
handleLanguageSelection(pg, selectedLangCode) ==
  LET chosen ==
        IF pg.state.modalContext = "source"
        THEN IF selectedLangCode = pg.state.targetLang THEN handleSwap(pg)
             ELSE [pg EXCEPT !.state.sourceLang = selectedLangCode]
        ELSE IF pg.state.modalContext = "target"
        THEN IF selectedLangCode = pg.state.sourceLang THEN handleSwap(pg)
             ELSE [pg EXCEPT !.state.targetLang = selectedLangCode]
        ELSE pg
  IN closeLanguageModal(updateUI(chosen))

\* the buttons populateModalOptions appends for the catalog it was given
Offered(allLangs, context) ==
  { allLangs[i].code : i \in DOMAIN allLangs } \
    (IF context = "target" THEN {"auto"} ELSE {})

\* populateModalOptions and openLanguageModal after `await
\* getAllLanguages()`
ModalPopulated(pg, allLangs) ==
  [pg EXCEPT !.langModal.options =
               @ \cup Offered(allLangs, pg.state.modalContext),
             !.langModal.hidden = FALSE]

\* the input listener after `await getLangNames()`
NamesArrived(pg, langNames) ==
  IF /\ Trim(pg.sourceTextarea) = <<>>
     /\ pg.state.sourceLang \in DOMAIN langNames
     /\ langNames[pg.state.sourceLang] # ""
  THEN updateUI([pg EXCEPT !.state.sourceLang = "auto"])
  ELSE pg

\* a suspended handler goes on with what the registry returned
GoesOn(pg, kind, res) ==
  IF kind = "populate" THEN ModalPopulated(pg, res.langs)
  ELSE IF kind = "input" THEN NamesArrived(pg, res.names)
  ELSE pg

\* a handler awaits getAllLanguages or getLangNames: with a filled cache it
\* goes on in the same task, otherwise it is suspended
Awaits(pg, kind) ==
  IF kind = "input"
  THEN IF IsNamesEmpty(pg.reg.langNamesMap) THEN Suspend(pg, kind)
       ELSE NamesArrived(pg, pg.reg.langNamesMap)
  ELSE IF IsCacheEmpty(pg.reg.mergedLanguages) THEN Suspend(pg, kind)
       ELSE GoesOn(pg, kind, [langs |-> pg.reg.mergedLanguages])

\* main.js openLanguageModal
openLanguageModal(pg, context) ==
  Awaits([pg EXCEPT !.state.modalContext = context,
                    !.langModal.options = {}], "populate")

\* the read of the oldest suspended handler was answered with res (or was
\* rejected, rejected = TRUE): the handler goes on, and the read of the
\* next suspended handler is requested
Resumed(pg, res, rejected) ==
  LET on == IF rejected THEN pg ELSE GoesOn(pg, Head(pg.uiOps), res)
      left == SubSeq(on.uiOps, 2, Len(on.uiOps))
  IN IF left = <<>> THEN [on EXCEPT !.uiOps = <<>>]
     ELSE [on EXCEPT !.uiOps = left, !.reg = UiRead(on.reg, Head(left))]

\* the text box after the key and the short-circuit check
TargetAfterApiKey(apiKey) ==
  IF ~NoApiKey(apiKey) /\ IsBlank(run.text)
  THEN TargetAfter(ShortCircuitResult(run.sourceLang))
  ELSE targetTextarea

\* the translate button: handleTranslation up to its first await, which is
\* inside getNextApiKey; translateText is passed sourceTextarea.value,
\* state.sourceLang and state.targetLang as they are now
handleTranslation(text) ==
  IF state.isTranslating \/ Trim(text) = <<>>
  THEN UNCHANGED <<rotVars, state, run, thist, targetTextarea>>
  ELSE /\ state' = toggleLoading(state, TRUE)
       /\ targetTextarea' = <<>>
       /\ run' = [IdleRun EXCEPT !.pc = "key", !.text = text,
                                 !.sourceLang = state.sourceLang,
                                 !.targetLang = state.targetLang]
       /\ GetNextApiKeyBeginStep(PageCall)
       /\ thist' = NewRun(text, state.sourceLang)

\* a click on the translate button
HandleTranslation ==
  /\ handleTranslation(sourceTextarea)
  /\ UNCHANGED <<history, now, sourceTextarea, langModal, uiOps>>
  /\ UNCHANGED <<dbVars, langVars, histVars, setVars>>

\* translateText called on its own, as api.js exports it
TranslateTextCall(text, sourceLang) ==
  /\ run.pc = "idle"
  /\ ~state.isTranslating
  /\ run' = [IdleRun EXCEPT !.pc = "key", !.direct = TRUE, !.text = text,
                            !.sourceLang = sourceLang,
                            !.targetLang = TARGET_LANG]
  /\ GetNextApiKeyBeginStep(PageCall)
  /\ thist' = NewRun(text, sourceLang)
  /\ UNCHANGED <<state, history, now, domVars>>
  /\ UNCHANGED <<dbVars, langVars, histVars, setVars>>

\* getNextApiKey gets the pool; an empty pool returns null to translateText
TranslateReadKeys ==
  /\ run.pc = "key"
  /\ GetNextApiKeyReadKeysStep(PageCall)
  /\ IF call'[PageCall].pc = "idle"
     THEN /\ AfterApiKey(ret'[PageCall], thist)
          /\ targetTextarea' = TargetAfterApiKey(ret'[PageCall])
     ELSE UNCHANGED <<state, run, thist, langVars, targetTextarea>>
  /\ UNCHANGED <<history, now, sourceTextarea, langModal, uiOps>>
  /\ UNCHANGED <<dbVars, histVars, setVars>>

TranslateReadIndex ==
  /\ run.pc = "key"
  /\ GetNextApiKeyReadIndexStep(PageCall)
  /\ UNCHANGED transVars
  /\ UNCHANGED <<dbVars, langVars, histVars, setVars>>

\* the cursor is stored and the key arrives in translateText
TranslateKeyArrives ==
  /\ run.pc = "key"
  /\ GetNextApiKeySaveStep(PageCall)
  /\ AfterApiKey(ret'[PageCall],
                 [thist EXCEPT !.draws = @ + 1,
                               !.hadKey = ~NoApiKey(ret'[PageCall])])
  /\ targetTextarea' = TargetAfterApiKey(ret'[PageCall])
  /\ UNCHANGED <<history, now, sourceTextarea, langModal, uiOps>>
  /\ UNCHANGED <<dbVars, histVars, setVars>>

\* a read of the custom languages succeeds: for buildUnifiedPrompt the
\* request is sent, for handleTranslation the run goes on to the history
TranslateLanguagesLoaded ==
  /\ ReadIsNext(LangState)
  /\ IF Head(langTx) = UIReader
     THEN /\ SetUiPage(Resumed([UiPage EXCEPT !.reg = loadLanguages(LangState)],
                               loadLanguages(LangState).lret[UIReader],
                               FALSE))
          /\ UNCHANGED <<run, thist>>
     ELSE /\ SetLangState(loadLanguages(LangState))
          /\ UNCHANGED domVars
          /\ IF Head(langTx) # PageReader
             THEN UNCHANGED <<state, run, thist>>
             ELSE IF run.pc = "prompt"
             THEN /\ run' = [run EXCEPT !.pc = "fetch"]
                  /\ thist' = [thist EXCEPT !.reached = "fetch",
                                            !.fetches = @ + 1]
                  /\ UNCHANGED state
             ELSE AfterAllLangs(
                    run.result,
                    loadLanguages(LangState).lret[PageReader].langs, thist)
  /\ UNCHANGED <<history, now>>
  /\ UNCHANGED <<rotVars, dbVars, histVars, setVars>>

\* a read of the custom languages fails: the call that waits for it rejects
TranslateLanguagesFail ==
  /\ ReadIsNext(LangState)
  /\ IF Head(langTx) = UIReader
     THEN /\ SetUiPage(Resumed([UiPage EXCEPT
                                  !.reg = loadLanguagesRejected(LangState)],
                               NoResult, TRUE))
          /\ UNCHANGED <<run, thist>>
     ELSE /\ SetLangState(loadLanguagesRejected(LangState))
          /\ UNCHANGED domVars
          /\ IF Head(langTx) # PageReader
             THEN UNCHANGED <<state, run, thist>>
             ELSE IF run.pc = "prompt"
             THEN TranslateThrows(thist, Rejected("StorageFailure"))
             ELSE RunEnds(thist, "laterFailed")
  /\ UNCHANGED <<history, now>>
  /\ UNCHANGED <<rotVars, dbVars, histVars, setVars>>

\* fetch rejects, the status is not ok, the text is missing or it does not
\* parse: translateText throws
TranslateTextFails(resp) ==
  /\ run.pc = "fetch"
  /\ Classify(resp).error # "none"
  /\ TranslateThrows([thist EXCEPT !.answer = <<resp>>], Classify(resp))
  /\ UNCHANGED <<history, now, domVars>>
  /\ UNCHANGED <<rotVars, dbVars, langVars, histVars, setVars>>

\* translateText returns what JSON.parse gave
TranslateTextReturns(resp) ==
  /\ run.pc = "fetch"
  /\ Classify(resp).error = "none"
  /\ TranslateReturns(Classify(resp).value[1],
                      [thist EXCEPT !.answer = <<resp>>])
  /\ targetTextarea' = TargetAfter(Classify(resp).value[1])
  /\ UNCHANGED <<history, now, sourceTextarea, langModal, uiOps>>
  /\ UNCHANGED <<rotVars, dbVars, histVars, setVars>>

\* the put of addNewLanguage succeeds: the caches are emptied and
\* handleTranslation calls getAllLanguages, which has to reload
TranslateLanguageSaved ==
  /\ PutIsNext(LangState)
  /\ LET r1 == addNewLanguageSaved(LangState)
         emptied == IF r1.mergedLanguages = <<>> /\ r1.langNamesMap = <<>>
                    THEN 1 ELSE 0
     IN WithAllLangs(run.result,
                     [thist EXCEPT !.invalidations = @ + emptied], r1)
  /\ UNCHANGED <<history, now, domVars>>
  /\ UNCHANGED <<rotVars, dbVars, histVars, setVars>>

\* the put of addNewLanguage fails: the run ends in its catch block
TranslateLanguageRejected ==
  /\ PutIsNext(LangState)
  /\ SetLangState(addNewLanguageRejected(LangState))
  /\ RunEnds(thist, "laterFailed")
  /\ UNCHANGED <<history, now, domVars>>
  /\ UNCHANGED <<rotVars, dbVars, histVars, setVars>>

\* the add of the history record succeeds, or fails on a stored id
TranslateHistoryAdded ==
  /\ run.pc = "hist"
  /\ LET o == addHistoryItem(history, run.item[1]) IN
     /\ history' = o.store
     /\ RunEnds(thist, IF o.ok THEN "ok" ELSE "laterFailed")
  /\ UNCHANGED <<now, domVars>>
  /\ UNCHANGED <<rotVars, dbVars, langVars, histVars, setVars>>

\* a millisecond passes
Tick ==
  /\ now < MaxNow
  /\ now' = now + 1
  /\ UNCHANGED <<state, run, history, thist, domVars>>
  /\ UNCHANGED <<rotVars, dbVars, langVars, histVars, setVars>>

\* the rest of the model that a handler of the main page leaves alone
NotUi == <<rotVars, dbVars, histVars, setVars, run, history, now, thist>>

\* a click on the swap button
HandleSwap ==
  /\ Len(handleSwap(UiPage).uiOps) <= MaxUiOps
  /\ SetUiPage(handleSwap(UiPage))
  /\ UNCHANGED NotUi

\* a click on the source or the target language button
OpenLanguageModal(context) ==
  /\ Len(openLanguageModal(UiPage, context).uiOps) <= MaxUiOps
  /\ SetUiPage(openLanguageModal(UiPage, context))
  /\ UNCHANGED NotUi

\* the close button, the backdrop or Escape while the modal is shown
CloseLanguageModal ==
  /\ ~langModal.hidden
  /\ SetUiPage(closeLanguageModal(UiPage))
  /\ UNCHANGED NotUi

\* a click on one of the buttons of the modal
HandleLanguageSelection(selectedLangCode) ==
  /\ ~langModal.hidden
  /\ selectedLangCode \in langModal.options
  /\ Len(handleLanguageSelection(UiPage, selectedLangCode).uiOps) <= MaxUiOps
  /\ SetUiPage(handleLanguageSelection(UiPage, selectedLangCode))
  /\ UNCHANGED NotUi

\* the clear button
Clear ==
  /\ LET pg == updateUI([UiPage EXCEPT !.sourceTextarea = <<>>,
                                       !.targetTextarea = <<>>,
                                       !.state.sourceLang = "auto"])
     IN /\ Len(pg.uiOps) <= MaxUiOps
        /\ SetUiPage(pg)
  /\ UNCHANGED NotUi

\* the user edits the source text: the box holds text and the input
\* listener runs
Input(text) ==
  /\ text # sourceTextarea
  /\ LET pg == Awaits([UiPage EXCEPT !.sourceTextarea = text], "input")
     IN /\ Len(pg.uiOps) <= MaxUiOps
        /\ SetUiPage(pg)
  /\ UNCHANGED NotUi

\* the paste button, from the point where the clipboard text has arrived
Paste(text) ==
  /\ sourceTextarea' = text
  /\ IF state.autoTranslateOnPaste /\ text # <<>> /\ state.apiKeysAvailable
     THEN handleTranslation(text)
     ELSE UNCHANGED <<rotVars, state, run, thist, targetTextarea>>
  /\ UNCHANGED <<history, now, langModal, uiOps>>
  /\ UNCHANGED <<dbVars, langVars, histVars, setVars>>

----------------------------------------------------------------------------
(* The history store (db.js).  Each operation is one transaction with one   *)
(* request; the transactions on the store run one after the other.          *)

MaxId == 3

\* the ids a record may carry: readings of Date.now()
HistIds == 1 .. MaxId

\* records a caller may hand to addHistoryItem: two translations per id
HistItems ==
  { [id |-> i, sourceLang |-> "en", targetLang |-> TARGET_LANG,
     sourceText |-> <<"h">>, targetText |-> t] :
      i \in HistIds, t \in {"salam", "dorud"} }

\* store.getAll(): every record, in ascending order of the key
RECURSIVE getAll(_)
getAll(store) ==
  IF DOMAIN store = {} THEN <<>>
  ELSE LET m == CHOOSE i \in DOMAIN store : \A j \in DOMAIN store : i <= j IN
       <<store[m]>> \o getAll([i \in (DOMAIN store) \ {m} |-> store[i]])

OldestFirst(a, b) == a.id - b.id

\* the comparator of getHistory: (a, b) => b.id - a.id
NewestFirst(a, b) == b.id - a.id

\* Array.prototype.sort: x goes behind every element the comparator does
\* not put after it
RECURSIVE InsertSorted(_, _)
InsertSorted(sorted, x) ==
  IF sorted = <<>> THEN <<x>>
  ELSE IF NewestFirst(Head(sorted), x) <= 0
       THEN <<Head(sorted)>> \o InsertSorted(Tail(sorted), x)
       ELSE <<x>> \o sorted

RECURSIVE Sort(_)
Sort(a) ==
  IF a = <<>> THEN <<>>
  ELSE InsertSorted(Sort(SubSeq(a, 1, Len(a) - 1)), a[Len(a)])

\* db.js getHistory: request.result.sort((a, b) => b.id - a.id)
getHistory(store) == Sort(getAll(store))

deleteHistoryItemOrClear(store, id) ==
  IF id \in DOMAIN store THEN [i \in (DOMAIN store) \ {id} |-> store[i]]
  ELSE <<>>

\* db.js deleteHistoryItem: store.delete(id); a key that is not stored is
\* no error
deleteHistoryItem(store, id) == [i \in (DOMAIN store) \ {id} |-> store[i]]

\* db.js clearHistory: store.clear()
clearHistory(store) == <<>>

\* the ids of seq without id
RECURSIVE Without(_, _)
Without(seq, id) ==
  IF seq = <<>> THEN <<>>
  ELSE IF Head(seq) = id THEN Without(Tail(seq), id)
       ELSE <<Head(seq)>> \o Without(Tail(seq), id)

\* the history of one operation: what was called with what, how it ended,
\* the stored ids in the order of their insertion, whether the store held
\* the id (for clear and get: any record) when the operation ran, and
\* whether the operation before it was the same one on the same id
Called(op, item, id, outcome, order) ==
  [op |-> op, item |-> item, id |-> id, outcome |-> outcome,
   order |-> order, tick |-> ~hhist.tick,
   had |-> IF op \in {"add", "delete"} THEN id \in DOMAIN history
           ELSE DOMAIN history # {},
   repeat |-> hhist.op = op /\ hhist.id = id]

AddHistoryItem(item) ==
  /\ LET o == addHistoryItem(history, item) IN
     /\ history' = o.store
     /\ hhist' = Called("add", <<item>>, item.id,
                        IF o.ok THEN "resolved" ELSE "ConstraintError",
                        IF o.ok THEN Append(hhist.order, item.id)
                        ELSE hhist.order)
  /\ hret' = <<>>
  /\ UNCHANGED <<state, run, now, thist, domVars>>
  /\ UNCHANGED <<rotVars, dbVars, langVars, setVars>>

GetHistory ==
  /\ hret' = getHistory(history)
  /\ hhist' = Called("get", <<>>, 0, "resolved", hhist.order)
  /\ UNCHANGED transVars
  /\ UNCHANGED <<rotVars, dbVars, langVars, setVars>>

DeleteHistoryItem(id) ==
  /\ history' = deleteHistoryItem(history, id)
  /\ hhist' = Called("delete", <<>>, id, "resolved", Without(hhist.order, id))
  /\ hret' = <<>>
  /\ UNCHANGED <<state, run, now, thist, domVars>>
  /\ UNCHANGED <<rotVars, dbVars, langVars, setVars>>

ClearHistory ==
  /\ history' = clearHistory(history)
  /\ hhist' = Called("clear", <<>>, 0, "resolved", <<>>)
  /\ hret' = <<>>
  /\ UNCHANGED <<state, run, now, thist, domVars>>
  /\ UNCHANGED <<rotVars, dbVars, langVars, setVars>>

----------------------------------------------------------------------------
(* The settings store called on its own (db.js saveSetting, getSetting).    *)
(* Each call is one transaction with one request.                           *)

AUTO_COPY == "autoCopyResult"
THEME == "theme"

MaxWrites == 2

\* keys the pages save under, and values they save: the cursor, a toggle
\* (settings.js handleBehaviorToggle), the theme
SettingKeys == {LAST_KEY_INDEX, AUTO_COPY, THEME}

SettingValues(key) ==
  CASE key = LAST_KEY_INDEX -> -1 .. 1
    [] key = AUTO_COPY -> BOOLEAN
    [] key = THEME -> {"dark", "system"}

\* the records of the store, as store.getAll() would list them
SettingsRecords ==
  { [key |-> k, value |-> settings[k]] : k \in DOMAIN settings }

SaveSetting(key, value) ==
  /\ settings' = saveSetting(settings, key, value)
  /\ sret' = <<>>
  /\ shist' = [op |-> "save", key |-> key, outcome |-> "resolved",
               lastSaved |-> [shist.lastSaved EXCEPT ![key] = <<value>>],
               writes |-> [shist.writes EXCEPT
                             ![key] = IF @ < MaxWrites THEN @ + 1 ELSE @],
               tick |-> ~shist.tick]
  /\ UNCHANGED <<keys, rendered, pageOps, call, ret, hist>>
  /\ UNCHANGED <<dbVars, langVars, transVars, histVars>>

GetSetting(key) ==
  /\ sret' = getSetting(settings, key)
  /\ shist' = [shist EXCEPT !.op = "get", !.key = key,
                            !.outcome = "resolved", !.tick = ~@]
  /\ UNCHANGED rotVars
  /\ UNCHANGED <<dbVars, langVars, transVars, histVars>>

InitSet ==
  /\ sret = <<>>
  /\ shist = [op |-> "none", key |-> "", outcome |-> "none",
              lastSaved |-> [k \in SettingKeys |-> <<>>],
              writes |-> [k \in SettingKeys |-> 0], tick |-> FALSE]

NextSet ==
  \/ \E key \in SettingKeys : \E value \in SettingValues(key) :
       SaveSetting(key, value)
  \/ \E key \in SettingKeys : GetSetting(key)

InitHist ==
  /\ hret = <<>>
  /\ hhist = [op |-> "none", item |-> <<>>, id |-> 0, outcome |-> "none",
              order |-> <<>>, tick |-> FALSE, had |-> FALSE,
              repeat |-> FALSE]

NextHist ==
  \/ \E item \in HistItems : AddHistoryItem(item)
  \/ GetHistory
  \/ \E id \in HistIds : DeleteHistoryItem(id)
  \/ ClearHistory

----------------------------------------------------------------------------

AUTO_TRANSLATE == "autoTranslateOnPaste"

\* (await getSetting("autoTranslateOnPaste")) || false, for the stored
\* values, which are booleans
OrFalse(r) == IF Len(r) = 0 THEN FALSE ELSE r[1]

\* the state object (main.js:491-498) after initializeApp has read the
\* stored settings (main.js:508-511)
StateAfterInit(stored) ==
  [sourceLang |-> "auto", targetLang |-> TARGET_LANG,
   apiKeysAvailable |-> Len(KeysOrEmpty(getSetting(stored, API_KEYS))) > 0,
   isTranslating |-> FALSE,
   autoTranslateOnPaste |-> OrFalse(getSetting(stored, AUTO_TRANSLATE)),
   modalContext |-> "none"]

\* the main page with text in its source box
InitTransWith(text) ==
  /\ state = StateAfterInit(settings)
  /\ sourceTextarea = text
  /\ targetTextarea = <<>>
  /\ langModal = [hidden |-> TRUE, options |-> {}]
  /\ uiOps = <<>>
  /\ run = IdleRun
  /\ history = <<>>
  /\ now = 1
  /\ thist = [NewRun(<<>>, "") EXCEPT !.reached = "none"]

InitTrans == InitTransWith(<<>>)

\* the main page is opened on a database that holds a pool or none
InitPage ==
  /\ \/ InitRot
     \/ \E pool \in StoredPools : InitRotWith(saveSetting(<<>>, API_KEYS, pool))
  /\ InitDB
  /\ InitLang
  /\ \E text \in Texts : InitTransWith(text)
  /\ InitHist
  /\ InitSet

NextTrans ==
  \/ HandleTranslation
  \/ TranslateReadKeys
  \/ TranslateReadIndex
  \/ TranslateKeyArrives
  \/ TranslateLanguagesLoaded
  \/ TranslateLanguagesFail
  \/ \E resp \in Responses : TranslateTextFails(resp)
  \/ \E resp \in Responses : TranslateTextReturns(resp)
  \/ TranslateLanguageSaved
  \/ TranslateLanguageRejected
  \/ TranslateHistoryAdded
  \/ Tick

Init == InitRot /\ InitDB /\ InitLang /\ InitTrans /\ InitHist /\ InitSet

\* texts the user types or pastes on the main page
UiTexts == { <<>>, <<"h">> }

\* the buttons of the modal the user clicks on
Choices == {"auto", "fa", "en"}

\* answers while the user works on the page: none, or a translation from
\* a language of the catalog
UiResponses ==
  { NetworkError, Parsed(Translated("en", "salam", <<>>)) }

\* the main page with one stored key and auto-translate on, after
\* initializeApp has awaited getAllLanguages (main.js:522)
InitUi ==
  /\ InitRotWith(saveSetting(saveSetting(<<>>, API_KEYS, << <<"a">> >>),
                             AUTO_TRANSLATE, TRUE))
  /\ InitDB
  /\ InitLangWith(loadLanguages(ImportedRegistry))
  /\ InitTrans
  /\ InitHist
  /\ InitSet

NextUi ==
  \/ HandleTranslation
  \/ \E text \in UiTexts : Input(text)
  \/ \E text \in UiTexts : Paste(text)
  \/ Clear
  \/ HandleSwap
  \/ \E context \in {"source", "target"} : OpenLanguageModal(context)
  \/ CloseLanguageModal
  \/ \E code \in Choices : HandleLanguageSelection(code)
  \/ TranslateReadKeys
  \/ TranslateReadIndex
  \/ TranslateKeyArrives
  \/ \E resp \in UiResponses : TranslateTextFails(resp)
  \/ \E resp \in UiResponses : TranslateTextReturns(resp)
  \/ TranslateHistoryAdded

\* one main page and its user: typing, pasting, the language buttons and
\* the translate button, while a translation may be in flight
SpecUi == InitUi /\ [][NextUi]_vars

NextModal ==
  \/ \E text \in UiTexts : Input(text)
  \/ Clear
  \/ HandleSwap
  \/ \E context \in {"source", "target"} : OpenLanguageModal(context)
  \/ CloseLanguageModal
  \/ \E code \in Choices : HandleLanguageSelection(code)
  \/ TranslateLanguagesLoaded
  \/ TranslateLanguagesFail

\* the language buttons of a page whose scripts have just been imported:
\* a handler that finds the catalog not yet loaded is suspended
SpecModal == Init /\ [][NextModal]_vars

NextSelect ==
  \/ HandleSwap
  \/ \E context \in {"source", "target"} : OpenLanguageModal(context)
  \/ CloseLanguageModal
  \/ \E code \in Choices : HandleLanguageSelection(code)
  \/ TranslateLanguagesLoaded
  \/ TranslateLanguagesFail

\* the swap button and the language modal alone, from source "auto" and
\* target "fa"
SpecSelect == Init /\ [][NextSelect]_vars

\* one main page: the translate button, the model's answers, the clock
SpecTrans == InitPage /\ [][NextTrans]_vars

\* answers for the runs whose end is followed: none, null, a known
\* language, a new language
LiveResponses ==
  { NetworkError, Parsed(<<>>), Parsed(Translated("en", "salam", <<>>)),
    Parsed(Translated("it", "dorud", <<ItLang>>)) }

NextLive ==
  \/ HandleTranslation
  \/ TranslateReadKeys
  \/ TranslateReadIndex
  \/ TranslateKeyArrives
  \/ TranslateLanguagesLoaded
  \/ TranslateLanguagesFail
  \/ \E resp \in LiveResponses : TranslateTextFails(resp)
  \/ \E resp \in LiveResponses : TranslateTextReturns(resp)
  \/ TranslateLanguageSaved
  \/ TranslateLanguageRejected
  \/ TranslateHistoryAdded

\* every request of the run is answered: an IndexedDB request ends with a
\* success or an error event, the fetch settles (the premise of the claim
\* that reads this), and the event loop runs the continuation
Settles ==
  \/ TranslateReadKeys
  \/ TranslateReadIndex
  \/ TranslateKeyArrives
  \/ TranslateLanguagesLoaded
  \/ TranslateLanguagesFail
  \/ \E resp \in LiveResponses : TranslateTextFails(resp)
  \/ \E resp \in LiveResponses : TranslateTextReturns(resp)
  \/ TranslateLanguageSaved
  \/ TranslateLanguageRejected
  \/ TranslateHistoryAdded

\* one main page whose requests all settle: as long as an answer is
\* outstanding, one arrives
SpecLive == InitPage /\ [][NextLive]_vars /\ WF_vars(Settles)

NextGate ==
  \/ \E text \in Texts, sourceLang \in SourceLangs :
       TranslateTextCall(text, sourceLang)
  \/ TranslateReadKeys
  \/ TranslateReadIndex
  \/ TranslateKeyArrives
  \/ TranslateLanguagesLoaded
  \/ TranslateLanguagesFail
  \/ \E resp \in Responses : TranslateTextFails(resp)
  \/ \E resp \in Responses : TranslateTextReturns(resp)

\* translateText called on its own, one call after the other
SpecGate == InitPage /\ [][NextGate]_vars

\* the registry of one page: the load at import, two readers, one writer
SpecLang == Init /\ [][NextLang]_vars

NextLangAgain ==
  \/ \E p \in Readers : GetAllLanguages(p)
  \/ \E p \in Readers : GetLangNames(p)
  \/ LoadLanguagesDone
  \/ LoadLanguagesFail
  \/ \E opt \in {<<ItLang>>, <<ItAgain>>} : AddNewLanguage(opt)
  \/ AddNewLanguageDone
  \/ AddNewLanguageFail

\* the registry handed descriptors of which two carry the same code
SpecLangAgain == Init /\ [][NextLangAgain]_vars

NextRace ==
  \/ \E t \in Tabs : GetNextApiKeyBegin(t)
  \/ \E t \in Tabs : GetNextApiKeyReadKeys(t)
  \/ \E t \in Tabs : GetNextApiKeyReadIndex(t)
  \/ \E t \in Tabs : GetNextApiKeySave(t)

\* two callers of getNextApiKey on a stored pool that nobody edits
SpecRace == InitPage /\ [][NextRace]_vars

----------------------------------------------------------------------------
(* A reload of the main page.  Everything the page's scripts hold in        *)
(* variables is gone and the modules are evaluated again; the object        *)
(* stores are the browser's and stay.                                       *)

\* the pool and the cursor a page may find persisted: the cursor is absent,
\* -1 after a deletion, or the index an earlier call stored
ReloadPools == StoredPools \cup { << <<"a">>, <<"b">>, <<"c">> >> }

StoredCursors(pool) == {<<>>} \cup { <<i>> : i \in -1 .. Len(pool) - 1 }

WithCursor(s, c) == IF c = <<>> THEN s ELSE saveSetting(s, LAST_KEY_INDEX, c[1])

SettingsAfterReloadNoCursor(s) ==
  [k \in (DOMAIN s) \ {LAST_KEY_INDEX} |-> s[k]]

\* getNextApiKey keeps its cursor in the settings store and in no variable
\* of the module: a reload leaves it where the last saveSetting put it
SettingsAfterReload(s) == s

\* the put a call had requested when the page went away commits or aborts
SettingsAtUnload ==
  IF call[PageCall].pc = "saveIndex"
  THEN {settings, saveSetting(settings, LAST_KEY_INDEX, call[PageCall].nextIndex)}
  ELSE {settings}

Reload ==
  /\ \E s \in SettingsAtUnload : settings' = SettingsAfterReload(s)
  /\ call' = [call EXCEPT ![PageCall] = IdleCall]
  /\ ret' = [ret EXCEPT ![PageCall] = NoReturnYet]
  /\ hist' = LET h == [hist EXCEPT !.race = NoRace] IN
             IF call[PageCall].pc # "idle" THEN NoStreak(h)
             ELSE IF h.on THEN [h EXCEPT !.reloadedAt = Len(h.log)]
             ELSE h
  /\ UNCHANGED <<keys, rendered, pageOps>>
  \* db.js: `let db` is undefined again
  /\ db' = 0
  /\ opens' = <<>>
  /\ opPc' = [c \in StoreOps |-> "idle"]
  /\ dhist' = NoFailure
  /\ UNCHANGED idb
  \* languageService.js: empty caches, and loadLanguages() at import
  /\ mergedLanguages' = <<>>
  /\ langNamesMap' = <<>>
  /\ langTx' = <<Loader>>
  /\ lp' = [p \in LangProcs |->
              IF p = Loader THEN [pc |-> "wait", op |-> "load", lang |-> <<>>]
              ELSE IdleProc]
  /\ lret' = [p \in Readers |-> NoResult]
  /\ lhist' = [lhist EXCEPT !.cacheFrom = <<>>]
  /\ UNCHANGED languages
  \* main.js: the state object and the run in flight
  /\ state' = StateAfterInit(settings')
  /\ run' = IdleRun
  /\ sourceTextarea' = <<>>
  /\ targetTextarea' = <<>>
  /\ langModal' = [hidden |-> TRUE, options |-> {}]
  /\ uiOps' = <<>>
  /\ UNCHANGED <<history, now, thist>>
  /\ UNCHANGED <<histVars, setVars>>

InitReload ==
  /\ \E pool \in ReloadPools : \E c \in StoredCursors(pool) :
       InitRotWith(WithCursor(saveSetting(<<>>, API_KEYS, pool), c))
  /\ InitDB
  /\ InitLang
  /\ InitTrans
  /\ InitHist
  /\ InitSet

NextReload ==
  \/ GetNextApiKeyBegin(PageCall)
  \/ GetNextApiKeyReadKeys(PageCall)
  \/ GetNextApiKeyReadIndex(PageCall)
  \/ GetNextApiKeySave(PageCall)
  \/ Reload

\* one page that calls getNextApiKey and is reloaded at any moment
SpecReload == InitReload /\ [][NextReload]_vars

\* the largest cursor a page may find persisted
MaxCursor == 4

\* a pool with a cursor that an earlier, larger pool has left behind: the
\* pool was saved without the cursor being reset (settings.js:284-291 has
\* two writes), or the writes of two pages have crossed
InitStale ==
  /\ \E pool \in ReloadPools \ {<<>>} : \E c \in -1 .. MaxCursor :
       InitRotWith(WithCursor(saveSetting(<<>>, API_KEYS, pool), <<c>>))
  /\ InitDB
  /\ InitLang
  /\ InitTrans
  /\ InitHist
  /\ InitSet

\* getNextApiKey called by two pages on a pool whose cursor may be stale
SpecStale == InitStale /\ [][NextRace]_vars

\* saveSetting and getSetting called in any order on an empty store
SpecSet == Init /\ [][NextSet]_vars

\* the history store and its four operations, called in any order
SpecHist == Init /\ [][NextHist]_vars

NextTheme ==
  \/ \E c \in StoreOps : OpenDB(c)
  \/ OpenSuccess
  \/ OpenError
  \/ \E c \in StoreOps : StoreOpEnd(c)
  \/ GetThemeSetting

\* the connection of one page, its store operations, and theme.js opening
\* the same database
SpecTheme == Init /\ [][NextTheme]_vars

\* the connection of one page and the store operations that ask for it
SpecDB == Init /\ [][NextDB]_vars

NextRotOf(tabs, raws) ==
  \/ \E raw \in raws : AddApiKey(raw)
  \/ AddApiKeyRender
  \/ \E index \in 0 .. Cardinality(raws) : DeleteApiKey(index)
  \/ DeleteApiKeyReset
  \/ DeleteApiKeyRender
  \/ LoadSettings
  \/ \E t \in tabs : GetNextApiKeyBegin(t)
  \/ \E t \in tabs : GetNextApiKeyReadKeys(t)
  \/ \E t \in tabs : GetNextApiKeyReadIndex(t)
  \/ \E t \in tabs : GetNextApiKeySave(t)

NextRot == NextRotOf({"t1"}, RawKeys)

\* the credential rotator called from one page, and the settings page that
\* edits its pool
SpecRot == Init /\ [][NextRot]_vars

----------------------------------------------------------------------------
(* Claims about the credential rotator *)

KeyAt(i) == [kind |-> "key", key |-> Pool[((i - 1) % Len(Pool)) + 1]]

\* C1: with a stable pool of N >= 1 keys and a cursor that starts absent or
\* at -1, the i-th of up to N+1 sequential getNextApiKey calls returns
\* pool[(i-1) mod N]: pool[0], ..., pool[N-1] and then pool[0] again.
C1_RoundRobin ==
  (hist.on /\ hist.start \in {<<>>, <<-1>>} /\ Len(hist.log) > 0) =>
    /\ Len(Pool) > 0
    /\ \A i \in 1 .. Len(hist.log) : hist.log[i] = KeyAt(i)

\* a pool of three keys has served four sequential calls
C1_Witness ==
  /\ hist.on /\ hist.start \in {<<>>, <<-1>>}
  /\ Len(Pool) = 3 /\ Len(hist.log) = 4

\* C2: when deleteApiKey has removed a key, finished with no call in
\* flight, and keys remain, the next getNextApiKey call returns element 0
\* of the shrunk pool, whatever the cursor was before the deletion.
C2_DeletionResets ==
  (hist.on /\ hist.fromDelete /\ Len(hist.log) > 0) =>
    /\ Len(Pool) > 0
    /\ hist.log[1] = [kind |-> "key", key |-> Pool[1]]

\* a call has been served after a deletion that found the cursor at 1 or more
C2_Witness ==
  /\ hist.on /\ hist.fromDelete /\ Len(hist.log) > 0
  /\ hist.before # <<>> /\ hist.before[1] >= 1
  /\ Len(Pool) >= 1

\* C3 as stated: whenever the pool is non-empty the persisted cursor
\* satisfies 0 <= cursor < len(pool).
C3_CursorInRange ==
  (Pool # <<>> /\ Cursor # <<>>) => (0 <= Cursor[1] /\ Cursor[1] < Len(Pool))

\* C3 as amended: when the pool is non-empty, no deleteApiKey is between its
\* two writes and no operation has overlapped another since the cursor was
\* last reset, the persisted cursor is absent or -1 <= cursor < len(pool).
C3_CursorInRangeSequential ==
  (~hist.overlapped /\ pageOps.delReset = 0 /\ Pool # <<>> /\ Cursor # <<>>) =>
    (-1 <= Cursor[1] /\ Cursor[1] < Len(Pool))

\* after a deletion that ran on its own the cursor is -1 and keys remain
C3_Witness ==
  /\ ~hist.overlapped /\ pageOps.delReset = 0
  /\ Len(Pool) >= 2 /\ Cursor = <<-1>> /\ hist.fromDelete

\* C10: a getNextApiKey call that finds the pool empty or absent returns
\* null, and neither of its steps changes the stored cursor (or any setting).
C10_EmptyPoolReturnsNull ==
  [][\A t \in Tabs :
       /\ (call[t].pc = "idle" /\ call'[t].pc = "readKeys") =>
            settings' = settings
       /\ (call[t].pc = "readKeys" /\ call'[t] # call[t] /\ Pool = <<>>) =>
            /\ ret'[t] = ReturnNull
            /\ call'[t].pc = "idle"
            /\ settings' = settings]_vars

\* a call returned null on a pool that was emptied by deletions
C10_Witness ==
  \E t \in Tabs :
    /\ ret[t] = ReturnNull /\ call[t].pc = "idle"
    /\ getSetting(settings, API_KEYS) = << <<>> >>
    /\ Cursor = <<-1>>

----------------------------------------------------------------------------
(* Claims about the connection *)


\* C17: when two overlapping getNextApiKey calls have read the same pool
\* and the same cursor and both have stored their index, both have
\* returned the same credential, the one at the index that is persisted;
\* such a pair of calls exists on a pool of two keys.
C17_RaceSameCredential ==
  hist.race.stage = "both" =>
    \A t, u \in Tabs :
      /\ ret[t] = ret[u]
      /\ ret[t].kind = "key"
      /\ Len(Cursor) = 1
      /\ Cursor[1] + 1 \in DOMAIN Pool
      /\ ret[t].key = Pool[Cursor[1] + 1]

\* both calls of a race on a pool of two keys have returned, with the
\* same credential
C17_Witness ==
  /\ hist.race.stage = "both"
  /\ Len(Pool) >= 2
  /\ CallsInFlight = {}
  /\ ret["t1"].kind = "key"
  /\ ret["t1"] = ret["t2"]

\* C18: with a stable pool, a reload of the page between two sequential
\* getNextApiKey calls changes nothing: when the call before the reload
\* returned pool[i], the call after it returns pool[(i + 1) mod len(pool)].
C18_RotationSurvivesReload ==
  (hist.on /\ hist.reloadedAt >= 1 /\ Len(hist.log) > hist.reloadedAt) =>
    /\ Len(Pool) > 0
    /\ \E i \in 0 .. Len(Pool) - 1 :
         /\ hist.log[hist.reloadedAt] = [kind |-> "key", key |-> Pool[i + 1]]
         /\ hist.log[hist.reloadedAt + 1] =
              [kind |-> "key", key |-> Pool[((i + 1) % Len(Pool)) + 1]]

\* on a pool of three keys the page was reloaded after its second call and
\* has called once more
C18_Witness ==
  /\ hist.on /\ hist.reloadedAt = 2 /\ Len(hist.log) = 3
  /\ Len(Pool) = 3
  /\ call[PageCall].pc = "idle"

C30_CollectionsExist ==
  db # 0 =>
    {SETTINGS_STORE, HISTORY_STORE, LANGUAGES_STORE} \subseteq idb.stores

\* C7: open requests that are pending or have succeeded number at most one:
\* a caller that finds an open pending waits for it and issues none itself.
C7_SingleOpenRequest == Len(opens) + db <= 1


----------------------------------------------------------------------------
(* Claims about the language registry *)

\* the catalog a store content calls for, written from the contract and not
\* from the code: every built-in in its place, replaced by the custom
\* descriptor of the same code when there is one, then the remaining custom
\* languages
ExpectedCatalog(store) ==
  LET fresh == SelectSeq(CodeOrder,
                 LAMBDA c : c \in DOMAIN store /\ c \notin BaseCodes)
  IN [i \in DOMAIN BASE_LANGUAGES |->
        IF BASE_LANGUAGES[i].code \in DOMAIN store
        THEN store[BASE_LANGUAGES[i].code]
        ELSE BASE_LANGUAGES[i]]
     \o [i \in DOMAIN fresh |-> store[fresh[i]]]

\* C4: a catalog returned by getAllLanguages has an entry for every code
\* whose addNewLanguage had completed when the call began, whether the call
\* was answered from the cache or by a rebuild.
C4_NextCatalogHasAdded ==
  \A p \in Readers :
    lret[p].kind = "all" => lret[p].need \subseteq CodesOf(lret[p].langs)

\* one reader holds a catalog without "it" from a first call, and another
\* call, begun after addNewLanguage for "it" completed, returned it
C4_Witness ==
  \E p, q \in Readers :
    /\ lret[q].kind = "all"
    /\ "it" \notin CodesOf(lret[q].langs)
    /\ lret[p].kind = "all"
    /\ "it" \in lret[p].need
    /\ \E i \in DOMAIN lret[p].langs : lret[p].langs[i] = ItLang

\* C5: whenever no registry operation is in flight and the cache is loaded,
\* the cached catalog is the merge of the built-in catalog with the custom
\* languages persisted at that moment.
C5_CacheCoherent ==
  (RegistryIdle /\ Len(mergedLanguages) > 0)
    => mergedLanguages = ExpectedCatalog(languages)

\* a rebuild took its result while an addNewLanguage was waiting behind it,
\* and the registry has come to rest with the added language cached
C5_Witness ==
  /\ RegistryIdle
  /\ lhist.raced
  /\ "it" \in DOMAIN languages
  /\ \E i \in DOMAIN mergedLanguages : mergedLanguages[i] = ItLang

\* C6: a catalog returned by getAllLanguages has one entry per code; a code
\* that is persisted as a custom language has the custom descriptor, and
\* every other built-in code has its built-in descriptor.
C6_MergeOverride ==
  \A p \in Readers :
    lret[p].kind = "all" =>
      LET cat == lret[p].langs
          custom == lret[p].from
      IN /\ \A i, j \in DOMAIN cat : cat[i].code = cat[j].code => i = j
         /\ \A c \in DOMAIN custom : \E i \in DOMAIN cat : cat[i] = custom[c]
         /\ \A b \in DOMAIN BASE_LANGUAGES :
              BASE_LANGUAGES[b].code \notin DOMAIN custom
                => \E i \in DOMAIN cat : cat[i] = BASE_LANGUAGES[b]

\* a returned catalog was built while "fr" was persisted under another
\* name: it has the custom entry and no more entries than the built-ins
C6_Witness ==
  \E p \in Readers :
    /\ lret[p].kind = "all"
    /\ DOMAIN lret[p].from = {"fr"}
    /\ lret[p].from["fr"] # BASE_LANGUAGES[6]
    /\ Len(lret[p].langs) = Len(BASE_LANGUAGES)
    /\ lret[p].langs[6] = FrCustom


\* a registry call by reader p begins in this step
ReaderCalls(p) ==
  lp[p].pc = "idle" /\ (lp'[p] # lp[p] \/ lret'[p] # lret[p])

\* C14: a getAllLanguages or getLangNames call that begins while the cache
\* is loaded returns in the same step the catalog, or the name map, that is
\* cached, requests no transaction on the custom languages and leaves the
\* caches as they are.
C14_CachedReads ==
  [][\A p \in Readers :
       (ReaderCalls(p) /\ Len(mergedLanguages) > 0) =>
         /\ lp'[p].pc = "idle"
         /\ ~lret'[p].read
         /\ langTx' = langTx
         /\ lret'[p].kind = "all" => lret'[p].langs = mergedLanguages
         /\ lret'[p].kind = "names" => lret'[p].names = langNamesMap
         /\ UNCHANGED <<mergedLanguages, langNamesMap, languages>>]_vars

\* one reader holds the cached catalog and the other the cached name map,
\* both handed out without a read of the store
C14_Witness ==
  \E p, q \in Readers :
    /\ lret[p].kind = "all"
    /\ ~lret[p].read
    /\ lret[p].langs = mergedLanguages
    /\ Len(mergedLanguages) > 0
    /\ lret[q].kind = "names"
    /\ ~lret[q].read
    /\ lret[q].names = langNamesMap

\* the descriptor has no code or no name, or is missing
MissingCodeOrName(opt) ==
  Len(opt) = 0 \/ opt[1].code = "" \/ opt[1].name = ""

\* C15: an addNewLanguage call whose descriptor is missing or lacks its
\* code or its name returns in the same step, requests no put, and leaves
\* the custom languages and both caches as they are.
C15_InvalidDescriptorIgnored ==
  [][(lhist'.tick # lhist.tick /\ MissingCodeOrName(lhist'.lastAddArg)) =>
       /\ lp'[Adder].pc = "idle"
       /\ langTx' = langTx
       /\ UNCHANGED <<languages, mergedLanguages, langNamesMap>>]_vars

\* a descriptor without a name was handed to addNewLanguage while the cache
\* was loaded: the cache is still loaded and nothing is stored under its code
C15_Witness ==
  /\ lhist.lastAddArg = <<NoNameLang>>
  /\ lp[Adder].pc = "idle"
  /\ Len(mergedLanguages) > 0
  /\ DOMAIN langNamesMap # {}
  /\ "tlh" \notin DOMAIN languages

\* C16: the step in which a put of addNewLanguage succeeds leaves both
\* caches empty, whatever they were; and a step that takes the catalog from
\* empty to loaded is the completion of a read of the custom languages
\* started by the module load, getAllLanguages or getLangNames.
C16_RegistryStateMachine ==
  [][/\ (/\ langTx # <<>>
         /\ Head(langTx) = Adder
         /\ lp'[Adder].pc = "idle"
         /\ lhist'.lastPut \in {"savedEmpty", "savedLoaded"})
          => (mergedLanguages' = <<>> /\ langNamesMap' = <<>>)
     /\ (Len(mergedLanguages) = 0 /\ Len(mergedLanguages') > 0)
          => /\ langTx # <<>>
             /\ lp[Head(langTx)].op \in {"load", "all", "names"}
             /\ langTx' = Tail(langTx)
             /\ mergedLanguages' = ExpectedCatalog(languages)]_vars

\* a put has succeeded while the cache was loaded, and the registry is empty
C16_Witness ==
  /\ lhist.lastPut = "savedLoaded"
  /\ lp[Adder].pc = "idle"
  /\ mergedLanguages = <<>>
  /\ langNamesMap = <<>>
  /\ "it" \in DOMAIN languages

----------------------------------------------------------------------------
(* Claims about a translation run *)

\* the run that was started last has ended
RunFinished == run.pc = "idle" /\ thist.outcome # "none"

\* history records that exist now and did not when the run began
Appended == Cardinality(DOMAIN history) - thist.before

\* C8 as stated: a finished run whose translateText call returned a result
\* has appended exactly one history record, and a finished run whose
\* translateText call failed has appended none.
C8_OncePerReturnedResult ==
  RunFinished => Appended = (IF thist.returned THEN 1 ELSE 0)

\* C8 as amended: a run never appends more than one record; a finished run
\* has appended exactly one when its try block ran to the end, and none
\* when translateText failed or a later step of the run threw.
C8_OncePerCompletedRun ==
  /\ Appended \in {0, 1}
  /\ ~RunFinished => Appended = 0
  /\ RunFinished => Appended = (IF thist.outcome = "ok" THEN 1 ELSE 0)
  /\ thist.outcome = "ok" => thist.returned

\* a second translation has completed and added its record to the first
C8_Witness ==
  /\ RunFinished
  /\ thist.outcome = "ok"
  /\ thist.before = 1
  /\ Cardinality(DOMAIN history) = 2

\* the run has gone past the point where handleTranslation registers a
\* new language
PastRegistration == thist.reached \in {"langs", "hist"}

\* C9: when the result of a run carries a well-formed newLanguageInfo, then
\* once the run is past its registration step that descriptor is persisted
\* in the custom languages and both caches were emptied exactly once for
\* the run; no run empties them more than once.
C9_UnknownLanguageRegistered ==
  /\ thist.invalidations <= 1
  /\ (/\ PastRegistration
      /\ Len(thist.info) = 1
      /\ thist.info[1].code # ""
      /\ thist.info[1].name # "")
       => /\ thist.info[1].code \in DOMAIN languages
          /\ languages[thist.info[1].code] = thist.info[1]
          /\ thist.invalidations = 1

\* the model answered with "it", which no catalog had, and its descriptor:
\* the run goes on with the descriptor stored and the caches emptied once
C9_Witness ==
  /\ thist.unknown
  /\ thist.info = <<ItLang>>
  /\ PastRegistration
  /\ languages["it"] = ItLang
  /\ thist.invalidations = 1


----------------------------------------------------------------------------
(* Claims about translateText *)

\* the translateText call that was started last has settled
CallSettled == run.pc = "idle" /\ thist.outcome # "none"

\* the value the short-circuit has to return for the last call
BlankResult ==
  << [detectedSourceLanguage |-> thist.sourceLang, translatedText |-> "",
      newLanguageInfo |-> <<>>] >>

\* C11: with no credential in the pool no call ever dispatches a request,
\* and every settled call, whatever its text, has failed with the
\* no-credential error and returned nothing.
C11_NoCredential ==
  IsEmptyPool(Pool) =>
    /\ thist.fetches = 0
    /\ CallSettled => /\ thist.outcome = "translateFailed"
                      /\ thist.error = "NoCredential"
                      /\ thist.value = <<>>

\* a call with a whitespace-only text on an empty pool has failed with the
\* no-credential error
C11_Witness ==
  /\ CallSettled
  /\ IsEmptyPool(Pool)
  /\ thist.text = <<" ">>
  /\ thist.error = "NoCredential"

\* C12 as stated: a settled call whose text is empty or whitespace-only
\* has returned the requested source code with an empty translation and
\* has dispatched no request.
C12_BlankShortCircuit ==
  (CallSettled /\ Trim(thist.text) = <<>>) =>
    /\ thist.outcome = "returned"
    /\ thist.value = <<BlankResult>>
    /\ thist.fetches = 0

\* C12 as amended: the same for a call that found a credential; a call
\* with a blank text dispatches no request in any case.
C12_BlankShortCircuitWithKey ==
  Trim(thist.text) = <<>> =>
    /\ thist.fetches = 0
    /\ (CallSettled /\ ~IsEmptyPool(Pool)) =>
         /\ thist.outcome = "returned"
         /\ thist.value = <<BlankResult>>

\* translateText("   "-like text, "auto") with a key in the pool has
\* returned the short-circuit value
C12_Witness ==
  /\ CallSettled
  /\ thist.text = <<" ">>
  /\ thist.sourceLang = "auto"
  /\ ~IsEmptyPool(Pool)
  /\ thist.outcome = "returned"
  /\ thist.value[1][1].translatedText = ""
  /\ thist.value[1][1].detectedSourceLanguage = "auto"

FetchErrors ==
  {"NetworkFailure", "RemoteRejected", "MalformedResponse", "UnparsableResult"}

\* C13: a call dispatches at most one request and draws at most one
\* credential; a call that failed has returned no value, and it made no
\* request and no draw when the credential was missing, exactly one of each
\* when the failure came from the network or the response.
C13_FailuresAreTerminal ==
  /\ thist.fetches <= 1
  /\ thist.draws <= 1
  /\ (CallSettled /\ thist.error # "none") =>
       /\ thist.outcome = "translateFailed"
       /\ thist.value = <<>>
       /\ thist.error = "NoCredential" => thist.fetches = 0 /\ thist.draws = 0
       /\ thist.error \in FetchErrors => thist.fetches = 1 /\ thist.draws = 1

\* a call has failed on model text that is not JSON, after one request
C13_Witness ==
  /\ CallSettled
  /\ thist.error = "UnparsableResult"
  /\ thist.fetches = 1
  /\ thist.draws = 1

\* the answer the last call got from fetch
LastAnswer == thist.answer[1]

Answered == CallSettled /\ thist.answer # <<>>

\* C26: when the endpoint answers with a status that is not ok, the call
\* fails with the message getErrorMessage gives for that status and returns
\* nothing, whether the error body could be read or not.
C26_RemoteRejected ==
  (Answered /\ LastAnswer.sent /\ ~LastAnswer.ok) =>
    /\ thist.outcome = "translateFailed"
    /\ thist.error = "RemoteRejected"
    /\ thist.message = getErrorMessage(LastAnswer.status)
    /\ thist.value = <<>>

\* a 429 whose body could not be read has failed with the message for 429
C26_Witness ==
  /\ Answered
  /\ LastAnswer = NotOkUnreadable(429)
  /\ thist.error = "RemoteRejected"
  /\ thist.message.status = 429

TextIsNoJson ==
  /\ LastAnswer.sent /\ LastAnswer.ok /\ LastAnswer.body
  /\ LastAnswer.text # <<>>
  /\ LastAnswer.text[1] # <<>>
  /\ ~JsonParse(StripFences(LastAnswer.text[1])).ok

\* C28: when the model text, after fence stripping, is not valid JSON, the
\* call fails with the unparsable-result error, returns nothing, and the
\* error's message quotes none of the model text.
C28_UnparsableResult ==
  (Answered /\ TextIsNoJson) =>
    /\ thist.outcome = "translateFailed"
    /\ thist.error = "UnparsableResult"
    /\ thist.value = <<>>
    /\ thist.message.raw = <<>>

\* a text that is a word and no JSON has failed the call
C28_Witness ==
  /\ Answered
  /\ LastAnswer = NotJson
  /\ thist.error = "UnparsableResult"
  /\ thist.message.raw = <<>>

\* C29: for every result JSON text J, the bare model output J and the
\* fenced one (a ```json line, J, a ``` line) make translateText return the
\* same value, the one J denotes.
C29_FenceStripping ==
  \A r \in Results :
    (Answered /\ thist.answer \in {<<Parsed(r)>>, <<Fenced(r)>>}) =>
      /\ thist.outcome = "returned"
      /\ thist.error = "none"
      /\ thist.value = <<r>>

\* a fenced result has been returned as the bare one would be
C29_Witness ==
  /\ Answered
  /\ LastAnswer = Fenced(Translated("en", "salam", <<>>))
  /\ thist.outcome = "returned"
  /\ thist.value = <<Translated("en", "salam", <<>>)>>

\* C25: once a custom language descriptor is stored under a code, no step
\* removes it or changes the descriptor stored under that code.
C25_LanguagesInsertOnly ==
  [][ \A c \in DOMAIN languages :
        c \in DOMAIN languages' /\ languages'[c] = languages[c] ]_vars

----------------------------------------------------------------------------
(* Claims about the history store *)

\* C19: getHistory returns every stored history record exactly once, ordered
\* by id strictly descending, whatever the order of the insertions was.
C19_HistoryNewestFirst ==
  hhist.op = "get" =>
    /\ Len(hret) = Cardinality(DOMAIN history)
    /\ \A id \in DOMAIN history :
         Cardinality({i \in DOMAIN hret : hret[i] = history[id]}) = 1
    /\ \A i \in 1 .. Len(hret) - 1 : hret[i].id > hret[i + 1].id

\* three records went in as 2, 1, 3 and getHistory has listed them
C19_Witness ==
  /\ hhist.op = "get"
  /\ hhist.order = <<2, 1, 3>>
  /\ Len(hret) = 3
  /\ hret[1].id = 3

\* C20: addHistoryItem with an id that is already stored fails with a
\* duplicate-key error and leaves the whole store as it was; and no
\* operation changes a record that is stored before and after it.
C20_DuplicateIdRejected ==
  [][ /\ (hhist'.op = "add" /\ hhist'.id \in DOMAIN history) =>
           /\ hhist'.outcome = "ConstraintError"
           /\ history' = history
      /\ \A id \in (DOMAIN history) \cap (DOMAIN history') :
           history'[id] = history[id] ]_vars

\* an add of another translation under a stored id has failed, next to a
\* second stored record
C20_Witness ==
  /\ hhist.op = "add"
  /\ hhist.outcome = "ConstraintError"
  /\ hhist.id \in DOMAIN history
  /\ history[hhist.id] # hhist.item[1]
  /\ Cardinality(DOMAIN history) >= 2

\* C21: deleteHistoryItem(id) for an id that is not stored succeeds and
\* leaves the store unchanged; a second deleteHistoryItem(id) right after
\* the first changes nothing more; clearHistory on an empty store succeeds
\* and leaves it empty.
C21_IdempotentDeletion ==
  [][ /\ (hhist'.op = "delete" /\ hhist'.id \notin DOMAIN history) =>
           /\ hhist'.outcome = "resolved"
           /\ history' = history
      /\ (hhist'.op = "delete" /\ hhist'.repeat) =>
           /\ hhist'.outcome = "resolved"
           /\ history' = history
      /\ (hhist'.op = "clear" /\ DOMAIN history = {}) =>
           /\ hhist'.outcome = "resolved"
           /\ DOMAIN history' = {} ]_vars

\* the same id was deleted a second time, next to a record that stays
C21_Witness ==
  /\ hhist.op = "delete"
  /\ hhist.repeat
  /\ ~hhist.had
  /\ hhist.outcome = "resolved"
  /\ DOMAIN history # {}

----------------------------------------------------------------------------
(* Claims about the settings store *)

\* C22: after any sequence of saveSetting calls the settings store holds at
\* most one record per key, and getSetting(key) returns the value of the
\* most recently completed saveSetting(key, v).
C22_SettingsUpsert ==
  /\ \A r1, r2 \in SettingsRecords : r1.key = r2.key => r1 = r2
  /\ \A key \in SettingKeys :
       shist.lastSaved[key] # <<>> =>
         getSetting(settings, key) = shist.lastSaved[key]
  /\ (shist.op = "get" /\ shist.lastSaved[shist.key] # <<>>) =>
       sret = shist.lastSaved[shist.key]

\* the theme was saved twice and getSetting has returned the second value
C22_Witness ==
  /\ shist.op = "get"
  /\ shist.key = THEME
  /\ shist.writes[THEME] = 2
  /\ shist.lastSaved[THEME] = <<"dark">>
  /\ sret = <<"dark">>

\* C23: getSetting(key) for a key that was never saved resolves to null and
\* leaves the settings store unchanged.
C23_AbsentSetting ==
  [][ (shist'.op = "get" /\ shist'.lastSaved[shist'.key] = <<>>) =>
        /\ shist'.outcome = "resolved"
        /\ sret' = <<>>
        /\ settings' = settings ]_vars

\* the theme was read before any save of it, with another key stored
C23_Witness ==
  /\ shist.op = "get"
  /\ shist.key = THEME
  /\ shist.lastSaved[THEME] = <<>>
  /\ shist.outcome = "resolved"
  /\ sret = <<>>
  /\ DOMAIN settings # {}

----------------------------------------------------------------------------
(* Claims about the main page *)

\* C31: the record handleTranslation hands to addHistoryItem has the
\* sourceText and the targetLang that were passed to translateText for that
\* run, also when the text was edited or another target language was
\* selected while the request was in flight.
C31_RecordMatchesRequest ==
  run.pc = "hist" =>
    /\ run.item[1].sourceText = run.text
    /\ run.item[1].targetLang = run.targetLang

----------------------------------------------------------------------------
(* Claims about stale cursors and the order of draw and short-circuit *)

\* C32: for every non-empty pool and every persisted cursor >= -1, also a
\* cursor >= len(pool) that a larger pool has left behind, getNextApiKey
\* returns an element of the pool it read and persists a cursor in
\* 0 .. len(pool)-1.
C32_StaleCursorTolerated ==
  [][ \A t \in Tabs :
        (call[t].pc = "saveIndex" /\ call'[t].pc = "idle") =>
          /\ ret'[t].kind = "key"
          /\ Includes(call[t].keys, ret'[t].key)
          /\ Len(Cursor') = 1
          /\ Cursor'[1] \in 0 .. Len(call[t].keys) - 1 ]_vars

\* the first call on a pool whose stored cursor was beyond its end has
\* returned a key
C32_Witness ==
  /\ hist.on
  /\ hist.start # <<>>
  /\ hist.start[1] >= Len(Pool)
  /\ Len(hist.log) = 1
  /\ ret[PageCall].kind = "key"
  /\ Includes(Pool, ret[PageCall].key)
  /\ Cursor[1] \in 0 .. Len(Pool) - 1

\* C33: translateText draws its credential before it looks at the text: a
\* settled call with a whitespace-only text on a non-empty pool has made no
\* request, has drawn once, and has moved the stored cursor one step on
\* from where it stood when the call began.
C33_DrawBeforeShortCircuit ==
  (CallSettled /\ Trim(thist.text) = <<>> /\ ~IsEmptyPool(Pool)) =>
    /\ thist.fetches = 0
    /\ thist.draws = 1
    /\ thist.outcome = "returned"
    /\ Cursor = <<NextIndex(NullishMinusOne(thist.cursor), Len(Pool))>>

\* a second call with a blank text on a pool of two keys: the cursor went
\* from 0 to 1 and no request was made
C33_Witness ==
  /\ CallSettled
  /\ thist.text = <<" ">>
  /\ Len(Pool) = 2
  /\ thist.cursor = <<0>>
  /\ Cursor = <<1>>
  /\ thist.fetches = 0
  /\ thist.draws = 1

\* C34: starting from an empty pool, after any sequence of addApiKey and
\* deleteApiKey calls the persisted pool has no entry twice and no empty or
\* whitespace-only entry, and an addApiKey with a blank key or with a key
\* of the pool leaves the pool and the cursor as they are.
C34_PoolUniqueness ==
  /\ \A i, j \in DOMAIN Pool : Pool[i] = Pool[j] => i = j
  /\ \A i \in DOMAIN Pool : Trim(Pool[i]) # <<>>
  /\ \A raw \in RawKeys :
       (Trim(raw) = <<>> \/ Includes(Pool, Trim(raw))) =>
         /\ ~addApiKey(keys, settings, raw).saved
         /\ addApiKey(keys, settings, raw).settings = settings

\* two keys are stored, the cursor has been moved by a call, and the key
\* " a" is one that addApiKey refuses
C34_Witness ==
  /\ Pool = << <<"a">>, <<"b">> >>
  /\ Cursor = <<0>>
  /\ ~addApiKey(keys, settings, <<" ", "a">>).saved

\* the step is a call of translateText by handleTranslation
TranslateTextStarts ==
  /\ thist' # thist
  /\ thist'.reached = "key" /\ thist'.outcome = "none"
  /\ call'[PageCall].pc = "readKeys"

\* C35: while a handleTranslation run is in progress, a click on the
\* translate button or an auto-translate on paste returns without calling
\* translateText: a call starts only when no run is in progress, and the
\* flag is up exactly while the run is.
C35_SingleTranslationInFlight ==
  /\ [](state.isTranslating <=> run.pc # "idle")
  /\ [][ TranslateTextStarts =>
           /\ ~state.isTranslating
           /\ run.pc = "idle"
           /\ state'.isTranslating ]_vars

\* the request of a run is in flight and the box holds another text than
\* the one that was sent: it was typed or pasted after the run began
C35_Witness ==
  /\ state.isTranslating
  /\ run.pc = "fetch"
  /\ run.text = <<"salam">>
  /\ sourceTextarea = <<"h">>
  /\ state.autoTranslateOnPaste /\ state.apiKeysAvailable

\* C36: every handleTranslation run that has set isTranslating sets it back
\* to false once its requests settle: when translateText returns, when it
\* throws, and when addNewLanguage, getAllLanguages or addHistoryItem fail
\* after it has returned.
C36_FlagReleased == state.isTranslating ~> ~state.isTranslating

\* a run whose translateText returned and whose later step failed has ended
\* with the flag down
C36_Witness ==
  /\ ~state.isTranslating
  /\ run.pc = "idle"
  /\ thist.returned
  /\ thist.outcome = "laterFailed"

\* ---------------------------------------------------------------------
\* Claims about the selected languages
\* ---------------------------------------------------------------------

\* C37: starting from source "auto" and target "fa", after any sequence of
\* handleLanguageSelection and handleSwap the selected source language and
\* the selected target language are never the same code.
C37_SourceAndTargetDiffer == state.sourceLang # state.targetLang

\* C38: starting from source "auto" and target "fa", after any sequence of
\* handleSwap, handleLanguageSelection with a choice the modal offers,
\* clear, input of source text and completed translations, the target
\* language is never "auto".
C38_TargetNeverAuto == state.targetLang # "auto"

\* handleSwap has run with source "auto": the typed text is in the target
\* box, the former target is the source and the target is the default
C38_Witness ==
  /\ state.sourceLang = "fa"
  /\ state.targetLang = "en"
  /\ sourceTextarea = <<>>
  /\ targetTextarea = <<"h">>
  /\ thist.outcome = "none"

\* ---------------------------------------------------------------------
\* Claims about the language caches and the detected language
\* ---------------------------------------------------------------------

\* C39: whenever no loadLanguages step is executing, the cached catalog is
\* empty exactly when the cached code-to-name map is empty, and when both
\* are filled the map's keys are exactly the catalog's codes, each mapped
\* to the name of the catalog's entry with that code.
C39_CachesInStep ==
  /\ IsCacheEmpty(mergedLanguages) <=> IsNamesEmpty(langNamesMap)
  /\ ~IsCacheEmpty(mergedLanguages) =>
       /\ DOMAIN langNamesMap =
            { mergedLanguages[i].code : i \in DOMAIN mergedLanguages }
       /\ \A i \in DOMAIN mergedLanguages :
            langNamesMap[mergedLanguages[i].code] = mergedLanguages[i].name

\* the caches were filled, emptied by a registration, and filled again with
\* the registered language in both
C39_Witness ==
  /\ lhist.lastPut = "savedLoaded"
  /\ ~IsCacheEmpty(mergedLanguages)
  /\ ItLang.code \in DOMAIN langNamesMap
  /\ langNamesMap[ItLang.code] = ItLang.name
  /\ \E i \in DOMAIN mergedLanguages : mergedLanguages[i] = ItLang

\* C40: after a successful translation handleTranslation sets the selected
\* source language to result.detectedSourceLanguage only if that code is in
\* the catalog it read after any newLanguageInfo was registered; otherwise
\* the selected source language is left as it was. (The step below is the
\* one in which the handler has the catalog and makes the check.)
C40_DetectedAdoptedOnlyWhenKnown ==
  [][ (run.pc # "hist" /\ run'.pc = "hist") =>
        LET r == run'.result[1]
            allLangs == lret'[PageReader].langs
            known == r.detectedSourceLanguage \in CodesOf(allLangs)
        IN /\ lhist'.added \subseteq CodesOf(allLangs)
           /\ known => state'.sourceLang = r.detectedSourceLanguage
           /\ ~known => state'.sourceLang = state.sourceLang
  ]_vars

\* a language the answer described was registered and then adopted as the
\* source; the run began with source "auto"
C40_Witness ==
  /\ run.pc = "hist"
  /\ run.result = Translated("it", "dorud", <<ItLang>>)
  /\ thist.sourceLang = "auto"
  /\ state.sourceLang = "it"
  /\ ItLang.code \in CodesOf(lret[PageReader].langs)

\* an unknown language without a descriptor: the source stays "auto"
C40_WitnessUnknown ==
  /\ run.pc = "hist"
  /\ run.result = Translated("it", "dorud", <<>>)
  /\ state.sourceLang = "auto"

====
